---- MODULE Spec2Model ----
(***************************************************************************)
(* Record store of xseon-real: the two storage backends of app/storage.py  *)
(* (LocalCsvBackend, GoogleSheetsBackend) and the request handlers of      *)
(* app/main.py that derive logs and audit entries from primary writes.     *)
(*                                                                         *)
(* A Python str is a Text: a sequence of characters.  A character is a     *)
(* TLA+ string; a longer one such as "10000" stands for a run of           *)
(* characters free of the delimiters "|" and "," and of blanks.  A table   *)
(* is the sequence of its data rows (the header row is not stored), each   *)
(* row a record of cells, each cell a Text.  A datetime is a natural       *)
(* number, NoDate is Python's None in a put_at field and None is an        *)
(* absent item.  The sheet service returns a cell's text as it was         *)
(* written.                                                                *)
(***************************************************************************)
EXTENDS Integers, Sequences, FiniteSets, TLC

VARIABLES backend, objects, places, tags, logs, audit, clock, last, inflight, mirror,
          failing, serving

vars == <<backend, objects, places, tags, logs, audit, clock, last, inflight, mirror,
          failing, serving>>

(***************************************************************************)
(* Bounds of the model.                                                    *)
(***************************************************************************)
\* utcnow() is not called any more once the clock shows MaxClock
MaxClock == 3
\* no request runs that would make the logs table longer than MaxLogs
MaxLogs == 2

None == [absent |-> TRUE]
NoDate == 0 - 1
BadDate == 0 - 2

(***************************************************************************)
(* Text: str.join, str.split, str.strip, sorted, isoformat, fromisoformat  *)
(***************************************************************************)
S(c) == <<c>>

\* the characters of the model in ASCII order (the order sorted() uses)
CharOrder == <<" ", "+", ",", "-", "0", "1", "10000", "10001", "2", "20000", "20001", "3", "4", "40000", "40001", "5", "6", "7", "8", "9", "a", "auto: created object", "auto: moved object", "auto: tags ", "b", "bad", "c", "m", "n", "u", "v", "x", "|">>

Rank(c) == CHOOSE i \in 1..Len(CharOrder) : CharOrder[i] = c

RECURSIVE TextLess(_, _)
TextLess(s, t) ==
    IF t = <<>> THEN FALSE
    ELSE IF s = <<>> THEN TRUE
    ELSE IF Head(s) = Head(t) THEN TextLess(Tail(s), Tail(t))
    ELSE Rank(Head(s)) < Rank(Head(t))

RECURSIVE sorted(_)
sorted(set) ==
    IF set = {} THEN <<>>
    ELSE LET m == CHOOSE x \in set : \A y \in set \ {x} : TextLess(x, y)
         IN  <<m>> \o sorted(set \ {m})

RECURSIVE join(_, _)
join(sep, list) ==
    IF list = <<>> THEN <<>>
    ELSE IF Len(list) = 1 THEN list[1]
    ELSE list[1] \o <<sep>> \o join(sep, Tail(list))

RECURSIVE split(_, _)
split(text, sep) ==
    IF \A i \in 1..Len(text) : text[i] # sep THEN <<text>>
    ELSE LET k == CHOOSE i \in 1..Len(text) :
                      text[i] = sep /\ \A j \in 1..(i - 1) : text[j] # sep
         IN  <<SubSeq(text, 1, k - 1)>> \o split(SubSeq(text, k + 1, Len(text)), sep)

RECURSIVE strip(_)
strip(text) ==
    IF text = <<>> THEN text
    ELSE IF Head(text) = " " THEN strip(Tail(text))
    ELSE IF text[Len(text)] = " " THEN strip(SubSeq(text, 1, Len(text) - 1))
    ELSE text

NonEmpty(t) == t # <<>>

\* [i for i in cell.split("|") if i]
SplitList(cell) == SelectSeq(split(cell, "|"), NonEmpty)

RECURSIVE MapStrip(_)
MapStrip(list) ==
    IF list = <<>> THEN <<>> ELSE <<strip(Head(list))>> \o MapStrip(Tail(list))

\* [t.strip() for t in list if t.strip()]
StripList(list) == SelectSeq(MapStrip(list), NonEmpty)

SeqToSet(list) == {list[i] : i \in 1..Len(list)}

Times == 0..(MaxClock + 1)

isoformat(t) == <<ToString(t)>>

fromisoformat(text) ==
    IF \E t \in Times : isoformat(t) = text
    THEN CHOOSE t \in Times : isoformat(t) = text
    ELSE BadDate

put_at_cell(put_at) == IF put_at # NoDate THEN isoformat(put_at) ELSE <<>>

put_at_value(cell) == IF cell # <<>> THEN fromisoformat(cell) ELSE NoDate

(***************************************************************************)
(* Items (the dataclasses) and their rows                                  *)
(***************************************************************************)
ObjectItem(id, name, description, images, images_photo, tgs, place_id, put_at) ==
    [id |-> id, name |-> name, description |-> description, images |-> images,
     images_photo |-> images_photo, tags |-> tgs, place_id |-> place_id,
     put_at |-> put_at]

PlaceItem(id, name, description, images, images_photo, tgs, put_at) ==
    [id |-> id, name |-> name, description |-> description, images |-> images,
     images_photo |-> images_photo, tags |-> tgs, put_at |-> put_at]

TagItem(id, name) == [id |-> id, name |-> name]

LogItem(timestamp, object_id, place_id, notes) ==
    [timestamp |-> timestamp, object_id |-> object_id, place_id |-> place_id,
     notes |-> notes]

AuditLogItem(timestamp, entity_type, entity_id, action, details) ==
    [timestamp |-> timestamp, entity_type |-> entity_type,
     entity_id |-> entity_id, action |-> action, details |-> details]

ObjectRow(item) ==
    [id |-> item.id, name |-> item.name, description |-> item.description,
     images |-> join("|", item.images),
     images_photo |-> join("|", item.images_photo),
     tags |-> join("|", item.tags),
     place_id |-> item.place_id,
     put_at |-> put_at_cell(item.put_at)]

PlaceRow(item) ==
    [id |-> item.id, name |-> item.name, description |-> item.description,
     images |-> join("|", item.images),
     images_photo |-> join("|", item.images_photo),
     tags |-> join("|", item.tags),
     put_at |-> put_at_cell(item.put_at)]

TagRow(item) == [id |-> item.id, name |-> item.name]

LogRow(item) ==
    [timestamp |-> isoformat(item.timestamp), object_id |-> item.object_id,
     place_id |-> item.place_id, notes |-> item.notes]

AuditRow(item) ==
    [timestamp |-> isoformat(item.timestamp), entity_type |-> item.entity_type,
     entity_id |-> item.entity_id, action |-> item.action,
     details |-> item.details]

ParseObject(row) ==
    ObjectItem(row.id, row.name, row.description, SplitList(row.images),
               SplitList(row.images_photo), SplitList(row.tags), row.place_id,
               put_at_value(row.put_at))

ParsePlace(row) ==
    PlaceItem(row.id, row.name, row.description, SplitList(row.images),
              SplitList(row.images_photo), SplitList(row.tags),
              put_at_value(row.put_at))

ParseTag(row) == TagItem(row.id, row.name)

ParseLog(row) ==
    LogItem(fromisoformat(row.timestamp), row.object_id, row.place_id, row.notes)

ParseAudit(row) ==
    AuditLogItem(fromisoformat(row.timestamp), row.entity_type, row.entity_id,
                 row.action, row.details)

(***************************************************************************)
(* Row tables: what both backends do with a table                          *)
(***************************************************************************)
\* a scan that stops at the first row whatever its id
FirstIndexAny(rows, id) == IF rows # <<>> THEN 1 ELSE 0

\* position of the first row with that id, 0 when there is none
FirstIndex(rows, id) ==
    IF \E i \in 1..Len(rows) : rows[i].id = id
    THEN CHOOSE i \in 1..Len(rows) :
             rows[i].id = id /\ \A j \in 1..(i - 1) : rows[j].id # id
    ELSE 0

RemoveAt(rows, i) == SubSeq(rows, 1, i - 1) \o SubSeq(rows, i + 1, Len(rows))

(***************************************************************************)
(* LocalCsvBackend: every call reads the whole table and a write rewrites  *)
(* it from the rows in memory                                              *)
(***************************************************************************)
\* an upsert that never finds the row
CsvUpsertAppend(rows, row) == Append(rows, row)

\* rows after "for r in rows: if r["id"] == item.id: r.update(...); break",
\* "if not found: rows.append(...)"
CsvUpsert(rows, row) ==
    LET i == FirstIndex(rows, row.id)
    IN  IF i # 0 THEN [rows EXCEPT ![i] = row] ELSE Append(rows, row)

\* a filter that stops reading at the row of the id
CsvRemoveFrom(rows, id) ==
    IF FirstIndex(rows, id) # 0 THEN SubSeq(rows, 1, FirstIndex(rows, id) - 1) ELSE rows

\* rows = [r for r in reader if r.get("id") != id]
CsvRemove(rows, id) == SelectSeq(rows, LAMBDA r : r.id # id)

Csv_list_objects(rows) == [i \in 1..Len(rows) |-> ParseObject(rows[i])]

Csv_get_object(rows, object_id) ==
    LET items == Csv_list_objects(rows)
        i == FirstIndex(items, object_id)
    IN  IF i # 0 THEN items[i] ELSE None

Csv_save_object(rows, item) == CsvUpsert(rows, ObjectRow(item))

Csv_delete_object(rows, object_id) == CsvRemove(rows, object_id)

Csv_list_places(rows) == [i \in 1..Len(rows) |-> ParsePlace(rows[i])]

Csv_get_place(rows, place_id) ==
    LET items == Csv_list_places(rows)
        i == FirstIndex(items, place_id)
    IN  IF i # 0 THEN items[i] ELSE None

Csv_save_place(rows, item) == CsvUpsert(rows, PlaceRow(item))

Csv_delete_place(rows, place_id) == CsvRemove(rows, place_id)

Csv_list_logs(rows) == [i \in 1..Len(rows) |-> ParseLog(rows[i])]

\* a log written above the rows read
Csv_add_log_first(rows, item) == <<LogRow(item)>> \o rows

Csv_add_log(rows, item) == Append(rows, LogRow(item))

Csv_list_audit(rows) == [i \in 1..Len(rows) |-> ParseAudit(rows[i])]

Csv_add_audit(rows, item) == Append(rows, AuditRow(item))

Csv_list_tags(rows) == [i \in 1..Len(rows) |-> ParseTag(rows[i])]

Csv_get_tag(rows, tag_id) ==
    LET items == Csv_list_tags(rows)
        i == FirstIndex(items, tag_id)
    IN  IF i # 0 THEN items[i] ELSE None

Csv_save_tag(rows, item) == CsvUpsert(rows, TagRow(item))

Csv_delete_tag(rows, tag_id) == CsvRemove(rows, tag_id)

\* a count of the rows read instead of the rows removed
Csv_delete_objects_by_place_all(rows, place_id) ==
    [rows |-> SelectSeq(rows, LAMBDA r : r.place_id # place_id), count |-> Len(rows)]

\* the rows that remain and the returned count
Csv_delete_objects_by_place(rows, place_id) ==
    LET remaining == SelectSeq(rows, LAMBDA r : r.place_id # place_id)
    IN  [rows |-> remaining, count |-> Len(rows) - Len(remaining)]

(***************************************************************************)
(* GoogleSheetsBackend: a worksheet whose row 1 is the header, so that     *)
(* data row k is sheet row k + 1 (enumerate(rows, start=2))                *)
(***************************************************************************)
get_all_records(ws) == ws

\* a row put above the data rows
append_row_first(ws, row) == <<row>> \o ws

append_row(ws, row) == Append(ws, row)

\* ws.update("A<idx>", [row_values]): the cells of sheet row idx are set; a
\* row below the last data row is blank, and the blank rows above a written
\* row are read back as records of empty cells
ws_update(ws, idx, row) ==
    IF idx - 1 <= Len(ws) THEN [ws EXCEPT ![idx - 1] = row]
    ELSE ws \o [i \in 1..(idx - 2 - Len(ws)) |-> [f \in DOMAIN row |-> <<>>]] \o <<row>>

\* a delete that takes idx for the position among the data rows
delete_rows_below(ws, idx) == RemoveAt(ws, idx)

\* ws.delete_rows(idx)
delete_rows(ws, idx) == RemoveAt(ws, idx - 1)

\* found_row_index / to_delete of the scan, 0 for Python's None
FoundRowIndex(rows, id) ==
    LET i == FirstIndex(rows, id) IN IF i # 0 THEN i + 1 ELSE 0

\* an update that always writes the first data row
SheetsUpsertFirstRow(ws, row) ==
    LET found_row_index == FoundRowIndex(get_all_records(ws), row.id)
    IN  IF found_row_index # 0 THEN ws_update(ws, 2, row)
        ELSE append_row(ws, row)

SheetsUpsert(ws, row) ==
    LET found_row_index == FoundRowIndex(get_all_records(ws), row.id)
    IN  IF found_row_index # 0 THEN ws_update(ws, found_row_index, row)
        ELSE append_row(ws, row)

\* the write of save_object made on the sheet as it is now, with the index
\* found in the rows fetched before
SheetsWriteFetched(fetched, ws, row) ==
    LET found_row_index == FoundRowIndex(fetched, row.id)
    IN  IF found_row_index # 0 THEN ws_update(ws, found_row_index, row)
        ELSE append_row(ws, row)

SheetsRemove(ws, id) ==
    LET to_delete == FoundRowIndex(get_all_records(ws), id)
    IN  IF to_delete # 0 THEN delete_rows(ws, to_delete) ELSE ws

Sheets_list_objects(ws) ==
    LET rows == get_all_records(ws)
    IN  [i \in 1..Len(rows) |-> ParseObject(rows[i])]

Sheets_get_object(ws, object_id) ==
    LET items == Sheets_list_objects(ws)
        i == FirstIndex(items, object_id)
    IN  IF i # 0 THEN items[i] ELSE None

Sheets_save_object(ws, item) == SheetsUpsert(ws, ObjectRow(item))

Sheets_delete_object(ws, object_id) == SheetsRemove(ws, object_id)

Sheets_list_places(ws) ==
    LET rows == get_all_records(ws)
    IN  [i \in 1..Len(rows) |-> ParsePlace(rows[i])]

Sheets_get_place(ws, place_id) ==
    LET items == Sheets_list_places(ws)
        i == FirstIndex(items, place_id)
    IN  IF i # 0 THEN items[i] ELSE None

Sheets_save_place(ws, item) == SheetsUpsert(ws, PlaceRow(item))

Sheets_delete_place(ws, place_id) == SheetsRemove(ws, place_id)

Sheets_list_logs(ws) ==
    LET rows == get_all_records(ws)
    IN  [i \in 1..Len(rows) |-> ParseLog(rows[i])]

Sheets_list_audit(ws) ==
    LET rows == get_all_records(ws)
    IN  [i \in 1..Len(rows) |-> ParseAudit(rows[i])]

Sheets_list_tags(ws) ==
    LET rows == get_all_records(ws)
    IN  [i \in 1..Len(rows) |-> ParseTag(rows[i])]

Sheets_get_tag(ws, tag_id) ==
    LET items == Sheets_list_tags(ws)
        i == FirstIndex(items, tag_id)
    IN  IF i # 0 THEN items[i] ELSE None

Sheets_save_tag(ws, item) == SheetsUpsert(ws, TagRow(item))

Sheets_delete_tag(ws, tag_id) == SheetsRemove(ws, tag_id)

Sheets_add_log(ws, item) == append_row(ws, LogRow(item))

\* an audit entry that is never written
Sheets_add_audit_none(ws, item) == ws

Sheets_add_audit(ws, item) == append_row(ws, AuditRow(item))

\* the deletes made in ascending order of the indices of the fetch: by the
\* k-th delete the rows below have moved up by k - 1, so that it removes
\* the row that the fetch had at its index plus k - 1 (none if past the end)
DeleteAscending(ws, idxs, n) ==
    LET gone == {i + Cardinality({j \in idxs : j < i}) : i \in idxs}
        F[k \in 0..Len(ws)] ==
            IF k = 0 THEN <<>>
            ELSE IF (k + 1) \in gone THEN F[k - 1] ELSE Append(F[k - 1], ws[k])
    IN  F[Len(ws)]

\* "for i in sorted(idxs, reverse=True): ws.delete_rows(i)" from index n down
RECURSIVE DeleteDescending(_, _, _)
DeleteDescending(ws, idxs, n) ==
    IF n < 2 THEN ws
    ELSE DeleteDescending(IF n \in idxs THEN delete_rows(ws, n) ELSE ws, idxs, n - 1)

Sheets_delete_objects_by_place(ws, place_id) ==
    LET rows == get_all_records(ws)
        idxs == {i + 1 : i \in {k \in 1..Len(rows) : rows[k].place_id = place_id}}
    IN  [rows |-> DeleteDescending(ws, idxs, Len(rows) + 1),
         count |-> Cardinality(idxs)]

(***************************************************************************)
(* get_storage(): the backend the environment selects                      *)
(***************************************************************************)
Backends == {"csv", "sheets"}

list_objects(b, t) == IF b = "csv" THEN Csv_list_objects(t) ELSE Sheets_list_objects(t)
get_object(b, t, id) == IF b = "csv" THEN Csv_get_object(t, id) ELSE Sheets_get_object(t, id)
save_object(b, t, item) == IF b = "csv" THEN Csv_save_object(t, item) ELSE Sheets_save_object(t, item)
delete_object(b, t, id) == IF b = "csv" THEN Csv_delete_object(t, id) ELSE Sheets_delete_object(t, id)
list_places(b, t) == IF b = "csv" THEN Csv_list_places(t) ELSE Sheets_list_places(t)
get_place(b, t, id) == IF b = "csv" THEN Csv_get_place(t, id) ELSE Sheets_get_place(t, id)
save_place(b, t, item) == IF b = "csv" THEN Csv_save_place(t, item) ELSE Sheets_save_place(t, item)
delete_place(b, t, id) == IF b = "csv" THEN Csv_delete_place(t, id) ELSE Sheets_delete_place(t, id)
list_tags(b, t) == IF b = "csv" THEN Csv_list_tags(t) ELSE Sheets_list_tags(t)
get_tag(b, t, id) == IF b = "csv" THEN Csv_get_tag(t, id) ELSE Sheets_get_tag(t, id)
save_tag(b, t, item) == IF b = "csv" THEN Csv_save_tag(t, item) ELSE Sheets_save_tag(t, item)
delete_tag(b, t, id) == IF b = "csv" THEN Csv_delete_tag(t, id) ELSE Sheets_delete_tag(t, id)
list_logs(b, t) == IF b = "csv" THEN Csv_list_logs(t) ELSE Sheets_list_logs(t)
add_log(b, t, item) == IF b = "csv" THEN Csv_add_log(t, item) ELSE Sheets_add_log(t, item)
list_audit(b, t) == IF b = "csv" THEN Csv_list_audit(t) ELSE Sheets_list_audit(t)
add_audit(b, t, item) == IF b = "csv" THEN Csv_add_audit(t, item) ELSE Sheets_add_audit(t, item)
delete_objects_by_place(b, t, id) ==
    IF b = "csv" THEN Csv_delete_objects_by_place(t, id)
    ELSE Sheets_delete_objects_by_place(t, id)

(***************************************************************************)
(* Request handlers of app/main.py.  last is the request served last: its  *)
(* handler, the id it addressed (for a create, the id it generated), the   *)
(* place_id and tags it submitted and the HTTP status of its response.     *)
(***************************************************************************)
Response(op, id, place_id, tgs, status) ==
    [op |-> op, id |-> id, place_id |-> place_id, tags |-> tgs, status |-> status]

\* the decimal digits of a natural number, the characters of str(n)
DigitChars == <<"0", "1", "2", "3", "4", "5", "6", "7", "8", "9">>

RECURSIVE digits(_)
digits(n) ==
    IF n < 10 THEN <<DigitChars[n + 1]>>
    ELSE Append(digits(n \div 10), DigitChars[(n % 10) + 1])

\* str(n): the run of the digits of n, one token of a Text
str(n) == <<ToString(n)>>

\* draws below the range
randint_short(lo, hi) == {lo \div 10, lo}

\* the draws of random.randint(lo, hi) that the model follows
randint(lo, hi) == {lo, lo + 1}

\* the ids "str(random.randint(10000, 99999))" generates, per kind; the
\* model numbers the kinds apart so that an id names its kind
ObjectIds == {str(n) : n \in randint(10000, 99999)}
PlaceIds == {str(n) : n \in randint(40000, 99999)}
TagIds == {str(n) : n \in randint(20000, 99999)}

\* an upload: does read() succeed, the bytes, does the sink succeed, its URL
Upload(read_ok, data, upload_ok, url) ==
    [read_ok |-> read_ok, data |-> data, upload_ok |-> upload_ok, url |-> url]

\* a batch that stops at the first upload that fails or is empty
save_uploaded_photos_abort(uploads) ==
    LET bad == {i \in 1..Len(uploads) :
                   ~uploads[i].read_ok \/ uploads[i].data = <<>> \/ ~uploads[i].upload_ok}
        n == IF bad = {} THEN Len(uploads)
             ELSE (CHOOSE i \in bad : \A j \in bad : i <= j) - 1
    IN  [i \in 1..n |-> uploads[i].url]

\* _save_uploaded_photos: per upload, read() and upload_file_bytes() inside
\* try/except; empty data is skipped (continue), an exception is passed over
RECURSIVE save_uploaded_photos(_)
save_uploaded_photos(uploads) ==
    IF uploads = <<>> THEN <<>>
    ELSE LET up == Head(uploads)
             rest == save_uploaded_photos(Tail(uploads))
         IN  IF ~up.read_ok THEN rest
             ELSE IF up.data = <<>> THEN rest
             ELSE IF ~up.upload_ok THEN rest
             ELSE <<up.url>> \o rest

\* [p for j, p in enumerate(photos) if j not in idxs]
RemovePhotos(photos, idxs) ==
    LET keep == {j \in 1..Len(photos) : (j - 1) \notin idxs}
        F[k \in 0..Len(photos)] ==
            IF k = 0 THEN <<>>
            ELSE IF k \in keep THEN Append(F[k - 1], photos[k]) ELSE F[k - 1]
    IN  F[Len(photos)]

\* the orders list(a_set) can produce
Orders(set) ==
    {q \in [1..Cardinality(set) -> set] : \A x \in set : \E i \in DOMAIN q : q[i] = x}

\* a tag note that leaves the removed tags out
TagNotesAddedOnly(added_tags, removed_tags) ==
    S("auto: tags ") \o
        (IF added_tags # <<>> THEN S("+") \o join(",", added_tags) ELSE <<>>)

\* "auto: tags " + " ".join(note_parts)
TagNotes(added_tags, removed_tags) ==
    LET plus == IF added_tags # <<>> THEN <<S("+") \o join(",", added_tags)>> ELSE <<>>
        minus == IF removed_tags # <<>> THEN <<S("-") \o join(",", removed_tags)>> ELSE <<>>
    IN  S("auto: tags ") \o join(" ", plus \o minus)

\* a create that never stamps the object
created_put_dt_never(place_id, now) == NoDate

\* put_dt = datetime.utcnow() if (place_id or "") else None
created_put_dt(place_id, now) == IF place_id # <<>> THEN now ELSE NoDate

\* a test that takes every non-empty place for a move
place_changed_always(new_place, prev_place_id) == new_place # <<>>

\* new_place and new_place != (prev.place_id or "")
place_changed(new_place, prev_place_id) ==
    new_place # <<>> /\ new_place # prev_place_id

\* an update that keeps the previous stamp whatever the place
updated_put_dt_keep(new_place, prev, now) == prev.put_at

\* put_dt = prev.put_at; if the place changed: put_dt = datetime.utcnow()
updated_put_dt(new_place, prev, now) ==
    IF place_changed(new_place, prev.place_id) THEN now ELSE prev.put_at

\* failing: the storage cannot be written (the data file cannot be opened,
\* the sheet service refuses the call); storage.save_object, save_place and
\* save_tag raise while it is so
save_raises == failing

\* a handler that catches what the save raises and goes on
unhandled_caught(raised) == FALSE

\* no handler wraps its storage.save_* call in try/except: what the save
\* raises ends the request, which is answered 500
unhandled(raised) == raised

\* POST /objects
create_object(name, description, images, place_id, uploads, tgs) ==
    \E new_id \in ObjectIds :
        /\ get_object(backend, objects, new_id) = None
        /\ LET photos == save_uploaded_photos(uploads)
               has_place == place_id # <<>>
               put_dt == created_put_dt(place_id, clock + 1)
               item == ObjectItem(new_id, name, description,
                                  StripList(split(images, ",")), photos,
                                  StripList(tgs), place_id, put_dt)
           IN  IF unhandled(save_raises)
               THEN /\ has_place => clock < MaxClock
                    /\ clock' = IF has_place THEN clock + 1 ELSE clock
                    /\ last' = Response("create_object", new_id, place_id, tgs, 500)
                    /\ UNCHANGED <<backend, failing, serving, mirror, inflight, objects, places,
                                   tags, logs, audit>>
               ELSE
               /\ has_place => clock < MaxClock /\ Len(logs) < MaxLogs
               /\ objects' = save_object(backend, objects, item)
               /\ logs' = IF item.place_id # <<>>
                          THEN add_log(backend, logs,
                                       LogItem(IF put_dt # NoDate THEN put_dt ELSE clock + 1,
                                               new_id, item.place_id,
                                               S("auto: created object")))
                          ELSE logs
               /\ clock' = IF has_place THEN clock + 1 ELSE clock
               /\ last' = Response("create_object", new_id, place_id, tgs, 302)
               /\ UNCHANGED <<backend, failing, serving, mirror, inflight, places, tags, audit>>

\* POST /objects/{object_id}
update_object(object_id, name, description, images, place_id, uploads, remove_photo, tgs) ==
    LET got == get_object(backend, objects, object_id)
        prev == IF got = None
                THEN ObjectItem(object_id, name, <<>>, <<>>, <<>>, <<>>, <<>>, NoDate)
                ELSE got
        photos0 == prev.images_photo \o save_uploaded_photos(uploads)
        photos == IF remove_photo # {} THEN RemovePhotos(photos0, remove_photo) ELSE photos0
        new_place == place_id
        moved == place_changed(new_place, prev.place_id)
        put_dt == updated_put_dt(new_place, prev, clock + 1)
        clock1 == IF moved THEN clock + 1 ELSE clock
        prev_tags == SeqToSet(prev.tags)
        new_tags_set == SeqToSet(StripList(tgs))
        added_tags == sorted(new_tags_set \ prev_tags)
        removed_tags == sorted(prev_tags \ new_tags_set)
        retagged == added_tags # <<>> \/ removed_tags # <<>>
        calls == (IF moved THEN 1 ELSE 0) + (IF retagged THEN 1 ELSE 0)
        logs1 == IF moved
                 THEN add_log(backend, logs,
                              LogItem(IF put_dt # NoDate THEN put_dt ELSE clock + 1,
                                      object_id, new_place, S("auto: moved object")))
                 ELSE logs
    IN  IF unhandled(save_raises)
        THEN /\ clock1 <= MaxClock
             /\ clock' = clock1
             /\ last' = Response("update_object", object_id, place_id, tgs, 500)
             /\ UNCHANGED <<backend, failing, serving, mirror, inflight, objects, places, tags,
                            logs, audit>>
        ELSE
        /\ clock + calls <= MaxClock
        /\ Len(logs) + calls <= MaxLogs
        /\ \E tag_list \in Orders(new_tags_set) :
               objects' = save_object(backend, objects,
                              ObjectItem(object_id, name, description,
                                         StripList(split(images, ",")), photos,
                                         tag_list, new_place, put_dt))
        /\ logs' = IF retagged
                   THEN add_log(backend, logs1,
                                LogItem(clock1 + 1, object_id,
                                        IF new_place # <<>> THEN new_place ELSE prev.place_id,
                                        TagNotes(added_tags, removed_tags)))
                   ELSE logs1
        /\ clock' = clock + calls
        /\ last' = Response("update_object", object_id, place_id, tgs, 302)
        /\ UNCHANGED <<backend, failing, serving, mirror, inflight, places, tags, audit>>

\* a create_log that also writes an audit entry for the move
create_log_audited(object_id, place_id, notes, at) ==
    /\ at = <<>>
    /\ clock < MaxClock
    /\ Len(logs) < MaxLogs
    /\ logs' = add_log(backend, logs, LogItem(clock + 1, object_id, place_id, notes))
    /\ LET obj == get_object(backend, objects, object_id)
       IN  objects' = IF obj # None
                      THEN save_object(backend, objects,
                               [obj EXCEPT !.place_id = place_id, !.put_at = clock + 1])
                      ELSE objects
    /\ audit' = add_audit(backend, audit,
                    AuditLogItem(clock + 1, S("object"), object_id, S("moved"), notes))
    /\ clock' = clock + 1
    /\ last' = Response("create_log", object_id, place_id, <<>>, 302)
    /\ UNCHANGED <<backend, failing, serving, mirror, inflight, places, tags>>

\* a create_log that stores an Object for an id that has none
create_log_upsert(object_id, place_id, notes, at) ==
    LET now == at = <<>>
        at_dt == IF now THEN clock + 1 ELSE fromisoformat(at)
        got == get_object(backend, objects, object_id)
        obj == IF got = None
               THEN ObjectItem(object_id, <<>>, <<>>, <<>>, <<>>, <<>>, <<>>, NoDate)
               ELSE got
    IN  /\ at_dt # BadDate
        /\ now => clock < MaxClock
        /\ Len(logs) < MaxLogs
        /\ logs' = add_log(backend, logs, LogItem(at_dt, object_id, place_id, notes))
        /\ objects' = save_object(backend, objects,
                          [obj EXCEPT !.place_id = place_id, !.put_at = at_dt])
        /\ clock' = IF now THEN clock + 1 ELSE clock
        /\ last' = Response("create_log", object_id, place_id, <<>>, 302)
        /\ UNCHANGED <<backend, failing, serving, mirror, inflight, places, tags, audit>>

\* POST /logs
create_log(object_id, place_id, notes, at) ==
    LET now == at = <<>>
        at_dt == IF now THEN clock + 1 ELSE fromisoformat(at)
    IN  IF at_dt = BadDate
        THEN /\ last' = Response("create_log", object_id, place_id, <<>>, 500)
             /\ UNCHANGED <<backend, failing, serving, mirror, inflight, objects, places, tags, logs, audit, clock>>
        ELSE /\ now => clock < MaxClock
             /\ Len(logs) < MaxLogs
             /\ logs' = add_log(backend, logs, LogItem(at_dt, object_id, place_id, notes))
             /\ LET obj == get_object(backend, objects, object_id)
                IN  objects' = IF obj # None
                               THEN save_object(backend, objects,
                                        [obj EXCEPT !.place_id = place_id, !.put_at = at_dt])
                               ELSE objects
             /\ clock' = IF now THEN clock + 1 ELSE clock
             /\ last' = Response("create_log", object_id, place_id, <<>>, 302)
             /\ UNCHANGED <<backend, failing, serving, mirror, inflight, places, tags, audit>>

\* POST /places
create_place(name, description, images, uploads, tgs) ==
    \E new_id \in PlaceIds :
        /\ get_place(backend, places, new_id) = None
        /\ IF unhandled(save_raises)
           THEN /\ last' = Response("create_place", new_id, <<>>, tgs, 500)
                /\ UNCHANGED <<backend, failing, serving, mirror, inflight, objects, places,
                               tags, logs, audit, clock>>
           ELSE
                /\ clock < MaxClock
                /\ LET photos == save_uploaded_photos(uploads)
                       item == PlaceItem(new_id, name, description,
                                         StripList(split(images, ",")), photos,
                                         StripList(tgs), NoDate)
                   IN  places' = save_place(backend, places, item)
                /\ audit' = add_audit(backend, audit,
                                AuditLogItem(clock + 1, S("place"), new_id, S("created"), name))
                /\ clock' = clock + 1
                /\ last' = Response("create_place", new_id, <<>>, tgs, 302)
                /\ UNCHANGED <<backend, failing, serving, mirror, inflight, objects, tags, logs>>

\* a guard that finds no object anywhere
objects_here_none(place_id) == <<>>

\* [o for o in storage.list_objects() if o.place_id == place_id]
objects_here(place_id) ==
    SelectSeq(list_objects(backend, objects), LAMBDA o : o.place_id = place_id)

\* POST /places/{place_id}/delete
delete_place_request(place_id) ==
    LET item == get_place(backend, places, place_id)
    IN  IF item = None
        THEN /\ last' = Response("delete_place", place_id, <<>>, <<>>, 404)
             /\ UNCHANGED <<backend, failing, serving, mirror, inflight, objects, places, tags, logs, audit, clock>>
        ELSE IF objects_here(place_id) # <<>>
        THEN /\ last' = Response("delete_place", place_id, <<>>, <<>>, 200)
             /\ UNCHANGED <<backend, failing, serving, mirror, inflight, objects, places, tags, logs, audit, clock>>
        ELSE /\ clock < MaxClock
             /\ places' = delete_place(backend, places, place_id)
             /\ audit' = add_audit(backend, audit,
                             AuditLogItem(clock + 1, S("place"), place_id,
                                          S("deleted"), item.name))
             /\ clock' = clock + 1
             /\ last' = Response("delete_place", place_id, <<>>, <<>>, 302)
             /\ UNCHANGED <<backend, failing, serving, mirror, inflight, objects, tags, logs>>

\* POST /places/{place_id}/delete_all_objects
delete_all_objects(place_id) ==
    LET item == get_place(backend, places, place_id)
    IN  IF item = None
        THEN /\ last' = Response("delete_all_objects", place_id, <<>>, <<>>, 404)
             /\ UNCHANGED <<backend, failing, serving, mirror, inflight, objects, places, tags, logs, audit, clock>>
        ELSE LET res == delete_objects_by_place(backend, objects, place_id)
             IN  /\ clock < MaxClock
                 /\ objects' = res.rows
                 /\ audit' = add_audit(backend, audit,
                                 AuditLogItem(clock + 1, S("place"), place_id,
                                              S("delete_all_objects"),
                                              str(res.count)))
                 /\ clock' = clock + 1
                 /\ last' = Response("delete_all_objects", place_id, <<>>, <<>>, 302)
                 /\ UNCHANGED <<backend, failing, serving, mirror, inflight, places, tags, logs>>

\* POST /places/{place_id}
update_place(place_id, name, description, images, uploads, remove_photo, tgs) ==
    LET prev == get_place(backend, places, place_id)
        photos0 == (IF prev # None THEN prev.images_photo ELSE <<>>)
                       \o save_uploaded_photos(uploads)
        photos == IF remove_photo # {} THEN RemovePhotos(photos0, remove_photo) ELSE photos0
        item == PlaceItem(place_id, name, description,
                          StripList(split(images, ",")), photos, StripList(tgs),
                          IF prev # None THEN prev.put_at ELSE NoDate)
    IN  IF unhandled(save_raises)
        THEN /\ last' = Response("update_place", place_id, <<>>, tgs, 500)
             /\ UNCHANGED <<backend, failing, serving, mirror, inflight, objects, places, tags,
                            logs, audit, clock>>
        ELSE
        /\ clock < MaxClock
        /\ places' = save_place(backend, places, item)
        /\ audit' = add_audit(backend, audit,
                        AuditLogItem(clock + 1, S("place"), place_id, S("updated"), name))
        /\ clock' = clock + 1
        /\ last' = Response("update_place", place_id, <<>>, tgs, 302)
        /\ UNCHANGED <<backend, failing, serving, mirror, inflight, objects, tags, logs>>

\* POST /tags
create_tag(name) ==
    \E new_id \in TagIds :
        /\ get_tag(backend, tags, new_id) = None
        /\ IF unhandled(save_raises)
           THEN /\ last' = Response("create_tag", new_id, <<>>, <<>>, 500)
                /\ UNCHANGED <<backend, failing, serving, mirror, inflight, objects, places,
                               tags, logs, audit, clock>>
           ELSE
                /\ clock < MaxClock
                /\ tags' = save_tag(backend, tags, TagItem(new_id, name))
                /\ audit' = add_audit(backend, audit,
                                AuditLogItem(clock + 1, S("tag"), new_id, S("created"), name))
                /\ clock' = clock + 1
                /\ last' = Response("create_tag", new_id, <<>>, <<>>, 302)
                /\ UNCHANGED <<backend, failing, serving, mirror, inflight, objects, places, logs>>

\* POST /tags/{tag_id}
update_tag(tag_id, name) ==
    LET got == get_tag(backend, tags, tag_id)
        existing == IF got = None THEN TagItem(tag_id, name)
                    ELSE [got EXCEPT !.name = name]
    IN  IF unhandled(save_raises)
        THEN /\ last' = Response("update_tag", tag_id, <<>>, <<>>, 500)
             /\ UNCHANGED <<backend, failing, serving, mirror, inflight, objects, places, tags,
                            logs, audit, clock>>
        ELSE
        /\ clock < MaxClock
        /\ tags' = save_tag(backend, tags, existing)
        /\ audit' = add_audit(backend, audit,
                        AuditLogItem(clock + 1, S("tag"), tag_id, S("updated"), name))
        /\ clock' = clock + 1
        /\ last' = Response("update_tag", tag_id, <<>>, <<>>, 302)
        /\ UNCHANGED <<backend, failing, serving, mirror, inflight, objects, places, logs>>

\* [o for o in storage.list_objects() if tag_id in (o.tags or [])]
objs_tagged(tag_id) ==
    SelectSeq(list_objects(backend, objects), LAMBDA o : tag_id \in SeqToSet(o.tags))

\* a guard that does not look at the places
places_tagged_none(tag_id) == <<>>

\* [p for p in storage.list_places() if tag_id in (p.tags or [])]
places_tagged(tag_id) ==
    SelectSeq(list_places(backend, places), LAMBDA p : tag_id \in SeqToSet(p.tags))

\* POST /tags/{tag_id}/delete
delete_tag_request(tag_id) ==
    LET item == get_tag(backend, tags, tag_id)
    IN  IF item = None
        THEN /\ last' = Response("delete_tag", tag_id, <<>>, <<>>, 404)
             /\ UNCHANGED <<backend, failing, serving, mirror, inflight, objects, places, tags, logs, audit, clock>>
        ELSE IF objs_tagged(tag_id) # <<>> \/ places_tagged(tag_id) # <<>>
        THEN /\ last' = Response("delete_tag", tag_id, <<>>, <<>>, 200)
             /\ UNCHANGED <<backend, failing, serving, mirror, inflight, objects, places, tags, logs, audit, clock>>
        ELSE /\ clock < MaxClock
             /\ tags' = delete_tag(backend, tags, tag_id)
             /\ audit' = add_audit(backend, audit,
                             AuditLogItem(clock + 1, S("tag"), tag_id,
                                          S("deleted"), item.name))
             /\ clock' = clock + 1
             /\ last' = Response("delete_tag", tag_id, <<>>, <<>>, 302)
             /\ UNCHANGED <<backend, failing, serving, mirror, inflight, objects, places, logs>>

(***************************************************************************)
(* The service: requests served one at a time on a fresh data directory    *)
(***************************************************************************)
NoRequest == Response("none", <<>>, <<>>, <<>>, 0)

\* inflight is what the storage calls in progress hold in memory: for each
\* caller, the step its save has reached (pc), the item it saves, the rows
\* it read, and the numbers of its read and of its write among the steps of
\* all callers (0: not taken)
Callers == {"a", "b", "c"}

IdleCall == [pc |-> "idle", item |-> None, rows |-> <<>>, read_at |-> 0, write_at |-> 0]

NoCalls == [c \in Callers |-> IdleCall]

\* serving is the requests that are served step by step: for each caller,
\* the step its handler has reached (pc), the id it has drawn or was
\* addressed to (id), the number of ids it has drawn (draws, counted up to
\* MaxDraws) and the record it has read (item)
IdleRequest == [pc |-> "idle", id |-> <<>>, draws |-> 0, item |-> None]

NoServing == [c \in Callers |-> IdleRequest]

\* mirror is a GoogleSheetsBackend that is given the same calls as the
\* backend of the service: its five worksheets
NoMirror == [objects |-> <<>>, places |-> <<>>, tags |-> <<>>, logs |-> <<>>, audit |-> <<>>]

Init ==
    /\ backend \in Backends
    /\ objects = <<>>
    /\ places = <<>>
    /\ tags = <<>>
    /\ logs = <<>>
    /\ audit = <<>>
    /\ clock = 0
    /\ last = NoRequest
    /\ inflight = NoCalls
    /\ mirror = NoMirror
    /\ failing = FALSE
    /\ serving = NoServing

\* what the requests of the model submit
Names == {S("n"), S("m")}
TagForms == {<<>>, <<S("20000")>>, <<S("20001")>>, <<S("20000"), S("20001")>>}
RetagForms == {<<>>, <<S("a")>>, <<S("a"), S("b")>>, <<S("b"), S("c")>>}
AtForms == {<<>>, isoformat(0), S("bad")}

CreateObject(placeForms, tagForms) ==
    \E place_id \in placeForms, tgs \in tagForms :
        create_object(S("n"), <<>>, <<>>, place_id, <<>>, tgs)

UpdateObject(ids, placeForms, tagForms) ==
    \E object_id \in ids, place_id \in placeForms, tgs \in tagForms :
        update_object(object_id, S("n"), <<>>, <<>>, place_id, <<>>, {}, tgs)

CreateLog(ids, placeForms, atForms) ==
    \E object_id \in ids, place_id \in placeForms, at \in atForms :
        create_log(object_id, place_id, <<>>, at)

CreatePlace(tagForms) ==
    \E tgs \in tagForms : create_place(S("n"), <<>>, <<>>, <<>>, tgs)

DeletePlace == \E place_id \in PlaceIds : delete_place_request(place_id)

DeleteAllObjects == \E place_id \in PlaceIds : delete_all_objects(place_id)

UpdatePlace(tagForms) ==
    \E place_id \in PlaceIds, name \in Names, tgs \in tagForms :
        update_place(place_id, name, <<>>, <<>>, <<>>, {}, tgs)

CreateTag == create_tag(S("n"))

UpdateTag == \E tag_id \in TagIds : update_tag(tag_id, S("m"))

DeleteTag == \E tag_id \in TagIds : delete_tag_request(tag_id)

\* objects and their moves between two places
NextMoves ==
    \/ CreateObject({<<>>} \cup PlaceIds, {<<>>})
    \/ UpdateObject(ObjectIds, {<<>>} \cup PlaceIds, {<<>>})
    \/ CreateLog({S("10000")}, {S("40001")}, AtForms)

SpecMoves == Init /\ [][NextMoves]_vars

\* objects and their tags
NextRetag ==
    \/ CreateObject({<<>>, S("40000")}, RetagForms)
    \/ UpdateObject({S("10000")}, {<<>>, S("40000")}, RetagForms)

SpecRetag == Init /\ [][NextRetag]_vars

\* places, the objects put in them and the requests that delete them
NextPlaces ==
    \/ CreateObject({<<>>} \cup PlaceIds, {<<>>})
    \/ UpdateObject({S("10000")}, {<<>>} \cup PlaceIds, {<<>>})
    \/ CreateLog({S("10000")}, {S("40001")}, {<<>>})
    \/ CreatePlace({<<>>})
    \/ DeletePlace
    \/ DeleteAllObjects

SpecPlaces == Init /\ [][NextPlaces]_vars

\* tags, the objects and places that carry them and the requests that
\* delete them
NextTags ==
    \/ CreateObject({<<>>}, {<<S("20000")>>, <<S("20000"), S("20001")>>})
    \/ UpdateObject({S("10000")}, {<<>>}, {<<>>, <<S("20001")>>})
    \/ CreatePlace({<<>>, <<S("20001")>>})
    \/ CreateTag
    \/ UpdateTag
    \/ DeleteTag

SpecTags == Init /\ [][NextTags]_vars

\* every route that writes, each with few forms
NextRoutes ==
    \/ CreateObject({S("40000")}, {<<>>})
    \/ UpdateObject({S("10000")}, {<<>>}, {<<>>})
    \/ CreateLog({S("10000")}, {S("40001")}, {<<>>})
    \/ CreatePlace({<<>>})
    \/ DeletePlace
    \/ delete_all_objects(S("40000"))
    \/ update_place(S("40000"), S("m"), <<>>, <<>>, <<>>, {}, <<>>)
    \/ CreateTag
    \/ update_tag(S("20000"), S("m"))
    \/ delete_tag_request(S("20000"))

SpecRoutes == Init /\ [][NextRoutes]_vars

(***************************************************************************)
(* The record store alone: records saved one after the other into tables   *)
(* that start empty, each save followed by a get of the saved id.  last is  *)
(* the call made last: the item saved and what the get returned.            *)
(***************************************************************************)
Saved(op, item, got) == [op |-> op, item |-> item, got |-> got]

\* the records the calls of the model save
StoredObjects ==
    {ObjectItem(id, S("n"), <<>>, images, <<>>, <<S("a")>>, at[1], at[2]) :
        id \in ObjectIds,
        images \in {<<>>, <<S("u"), S("v")>>, <<<<"u", "|", "v">>>>},
        at \in {<<<<>>, NoDate>>, <<S("40000"), 0>>}}

StoredPlaces ==
    {PlaceItem(id, S("n"), description, <<>>, <<>>, tgs, NoDate) :
        id \in PlaceIds,
        description \in {<<>>},
        tgs \in {<<>>, <<S("a"), S("b")>>}}

StoredTags == {TagItem(id, name) : id \in TagIds, name \in Names}

SaveGetObject ==
    \E item \in StoredObjects :
        /\ objects' = save_object(backend, objects, item)
        /\ last' = Saved("save_object", item, get_object(backend, objects', item.id))
        /\ UNCHANGED <<backend, failing, serving, mirror, inflight, places, tags, logs, audit, clock>>

SaveGetPlace ==
    \E item \in StoredPlaces :
        /\ places' = save_place(backend, places, item)
        /\ last' = Saved("save_place", item, get_place(backend, places', item.id))
        /\ UNCHANGED <<backend, failing, serving, mirror, inflight, objects, tags, logs, audit, clock>>

SaveGetTag ==
    \E item \in StoredTags :
        /\ tags' = save_tag(backend, tags, item)
        /\ last' = Saved("save_tag", item, get_tag(backend, tags', item.id))
        /\ UNCHANGED <<backend, failing, serving, mirror, inflight, objects, places, logs, audit, clock>>

NextStore ==
    \/ SaveGetObject
    \/ SaveGetPlace
    \/ SaveGetTag

SpecStore == Init /\ [][NextStore]_vars

(***************************************************************************)
(* The record store under saves and deletes: one interface call per step   *)
(* on tables that start empty.  last is the call made last: its name, its  *)
(* argument (an id, or the saved item's id) and what it returned.          *)
(***************************************************************************)
Returned(op, arg, result) == [op |-> op, arg |-> arg, result |-> result]

CallIds == ObjectIds \cup {S("10002")}

\* the records the calls save
CalledObjects ==
    {ObjectItem(id, S("n"), <<>>, <<>>, <<>>, <<>>, at[1], at[2]) :
        id \in CallIds,
        at \in {<<<<>>, NoDate>>, <<S("40000"), 0>>}}

CalledPlaces ==
    {PlaceItem(id, S("n"), <<>>, <<>>, <<>>, <<>>, NoDate) : id \in PlaceIds}

CalledTags == {TagItem(id, S("n")) : id \in TagIds}

SaveObject ==
    \E item \in CalledObjects :
        /\ objects' = save_object(backend, objects, item)
        /\ last' = Returned("save_object", item.id, None)
        /\ UNCHANGED <<backend, failing, serving, mirror, inflight, places, tags, logs, audit, clock>>

SavePlace ==
    \E item \in CalledPlaces :
        /\ places' = save_place(backend, places, item)
        /\ last' = Returned("save_place", item.id, None)
        /\ UNCHANGED <<backend, failing, serving, mirror, inflight, objects, tags, logs, audit, clock>>

SaveTag ==
    \E item \in CalledTags :
        /\ tags' = save_tag(backend, tags, item)
        /\ last' = Returned("save_tag", item.id, None)
        /\ UNCHANGED <<backend, failing, serving, mirror, inflight, objects, places, logs, audit, clock>>

DeleteObject ==
    \E object_id \in CallIds :
        /\ objects' = delete_object(backend, objects, object_id)
        /\ last' = Returned("delete_object", object_id, None)
        /\ UNCHANGED <<backend, failing, serving, mirror, inflight, places, tags, logs, audit, clock>>

DeletePlaceRow ==
    \E place_id \in PlaceIds :
        /\ places' = delete_place(backend, places, place_id)
        /\ last' = Returned("delete_place", place_id, None)
        /\ UNCHANGED <<backend, failing, serving, mirror, inflight, objects, tags, logs, audit, clock>>

DeleteTagRow ==
    \E tag_id \in TagIds :
        /\ tags' = delete_tag(backend, tags, tag_id)
        /\ last' = Returned("delete_tag", tag_id, None)
        /\ UNCHANGED <<backend, failing, serving, mirror, inflight, objects, places, logs, audit, clock>>

DeleteObjectsByPlace ==
    \E place_id \in {<<>>} \cup PlaceIds :
        LET res == delete_objects_by_place(backend, objects, place_id)
        IN  /\ objects' = res.rows
            /\ last' = Returned("delete_objects_by_place", place_id, res.count)
            /\ UNCHANGED <<backend, failing, serving, mirror, inflight, places, tags, logs, audit, clock>>

NextCalls ==
    \/ SaveObject
    \/ SavePlace
    \/ SaveTag
    \/ DeleteObject
    \/ DeletePlaceRow
    \/ DeleteTagRow
    \/ DeleteObjectsByPlace

SpecCalls == Init /\ [][NextCalls]_vars

(***************************************************************************)
(* Reads of a data directory that exists: _ensure_file leaves a table that *)
(* is there as it is, so a backend starts on whatever rows the directory   *)
(* holds.  A get parses every row of its table before it looks for the id, *)
(* and datetime.fromisoformat raises ValueError on a put_at cell that is   *)
(* not a timestamp.                                                        *)
(***************************************************************************)
\* no table of the directory has more rows than MaxRows
MaxRows == 2

ValueError == [raised |-> "ValueError"]

list_objects_raises(b, t) ==
    LET rows == IF b = "csv" THEN t ELSE get_all_records(t)
    IN  \E i \in 1..Len(rows) : put_at_value(rows[i].put_at) = BadDate

list_places_raises(b, t) ==
    LET rows == IF b = "csv" THEN t ELSE get_all_records(t)
    IN  \E i \in 1..Len(rows) : put_at_value(rows[i].put_at) = BadDate

\* what a call of get_<kind> gives its caller: the item, None or the error
call_get_object(b, t, id) ==
    IF list_objects_raises(b, t) THEN ValueError ELSE get_object(b, t, id)

call_get_place(b, t, id) ==
    IF list_places_raises(b, t) THEN ValueError ELSE get_place(b, t, id)

call_get_tag(b, t, id) == get_tag(b, t, id)

\* the rows a directory may hold
ObjectRowsOnDisk ==
    {ObjectRow(ObjectItem(S("10000"), S("n"), <<>>, <<>>, <<>>, <<>>, <<>>, NoDate)),
     ObjectRow(ObjectItem(S("10001"), S("n"), <<>>, <<>>, <<>>, <<>>, S("40000"), 0)),
     [ObjectRow(ObjectItem(S("10001"), S("n"), <<>>, <<>>, <<>>, <<>>, S("40000"), 0))
         EXCEPT !.put_at = S("yesterday")]}

PlaceRowsOnDisk ==
    {PlaceRow(PlaceItem(S("40000"), S("n"), <<>>, <<>>, <<>>, <<>>, NoDate)),
     [PlaceRow(PlaceItem(S("40001"), S("n"), <<>>, <<>>, <<>>, <<>>, NoDate))
         EXCEPT !.put_at = S("yesterday")]}

TagRowsOnDisk == {TagRow(item) : item \in CalledTags}

TablesOf(rows) == UNION {[1..n -> rows] : n \in 0..MaxRows}

InitOnDisk ==
    /\ backend \in Backends
    /\ objects \in TablesOf(ObjectRowsOnDisk)
    /\ places \in TablesOf(PlaceRowsOnDisk)
    /\ tags \in TablesOf(TagRowsOnDisk)
    /\ logs = <<>>
    /\ audit = <<>>
    /\ clock = 0
    /\ last = NoRequest
    /\ inflight = NoCalls
    /\ mirror = NoMirror
    /\ failing = FALSE
    /\ serving = NoServing

GetObject ==
    \E object_id \in CallIds :
        /\ last' = Returned("get_object", object_id,
                            call_get_object(backend, objects, object_id))
        /\ UNCHANGED <<backend, failing, serving, mirror, inflight, objects, places, tags, logs, audit, clock>>

GetPlace ==
    \E place_id \in PlaceIds :
        /\ last' = Returned("get_place", place_id,
                            call_get_place(backend, places, place_id))
        /\ UNCHANGED <<backend, failing, serving, mirror, inflight, objects, places, tags, logs, audit, clock>>

GetTag ==
    \E tag_id \in TagIds :
        /\ last' = Returned("get_tag", tag_id, call_get_tag(backend, tags, tag_id))
        /\ UNCHANGED <<backend, failing, serving, mirror, inflight, objects, places, tags, logs, audit, clock>>

NextReads ==
    \/ GetObject
    \/ GetPlace
    \/ GetTag

SpecReads == InitOnDisk /\ [][NextReads]_vars

(***************************************************************************)
(* LocalCsvBackend.save_object step by step: the call reads the file into  *)
(* rows, changes rows in memory and writes the file from rows.  Nothing    *)
(* keeps another caller from reading or writing between the two steps.     *)
(***************************************************************************)
\* steps taken so far by all callers
Events ==
    Cardinality({c \in Callers : inflight[c].pc # "idle"})
        + Cardinality({c \in Callers : inflight[c].pc = "done"})

\* a write made from the file as it is at the write
rows_written_reread(snapshot, file, item) == Csv_save_object(file, item)

\* what "writer.writerows(rows)" writes: the rows read, with the item put in
rows_written(snapshot, file, item) == Csv_save_object(snapshot, item)

\* "with open(self.objects_path) ...: rows = list(reader)"
SaveObjectRead(c) ==
    \E item \in CalledObjects :
        /\ backend = "csv"
        /\ inflight[c].pc = "idle"
        /\ inflight' = [inflight EXCEPT ![c] =
                           [pc |-> "read", item |-> item, rows |-> objects,
                            read_at |-> Events + 1, write_at |-> 0]]
        /\ UNCHANGED <<backend, failing, serving, mirror, objects, places, tags, logs, audit, clock, last>>

\* "with open(self.objects_path, "w") ...: writer.writerows(rows)"
SaveObjectWrite(c) ==
    /\ backend = "csv"
    /\ inflight[c].pc = "read"
    /\ objects' = rows_written(inflight[c].rows, objects, inflight[c].item)
    /\ inflight' = [inflight EXCEPT ![c].pc = "done", ![c].write_at = Events + 1]
    /\ last' = Returned("save_object", inflight[c].item.id, None)
    /\ UNCHANGED <<backend, failing, serving, mirror, places, tags, logs, audit, clock>>

InitCsv == Init /\ backend = "csv"

NextRace ==
    \/ \E c \in Callers : SaveObjectRead(c)
    \/ \E c \in Callers : SaveObjectWrite(c)

SpecRace == InitCsv /\ [][NextRace]_vars

(***************************************************************************)
(* The two backends side by side: every interface call is made on the      *)
(* LocalCsvBackend (the tables of the service) and on a                    *)
(* GoogleSheetsBackend (mirror), both starting empty.  last is the call    *)
(* and what each of the two returned.                                      *)
(***************************************************************************)
Pair(r_csv, r_sheets) == [csv |-> r_csv, sheets |-> r_sheets]

BothObjects ==
    {ObjectItem(id, S("n"), <<>>, <<>>, <<>>, <<S("20000")>>, at[1], at[2]) :
        id \in CallIds,
        at \in {<<<<>>, NoDate>>, <<S("40000"), 0>>}}

BothPlaces == {PlaceItem(S("40000"), S("n"), <<>>, <<>>, <<>>, tgs, NoDate) :
                  tgs \in {<<>>, <<S("20000")>>}}

BothTags == {TagItem(S("20000"), name) : name \in Names}

SaveObjectOnBoth ==
    \E item \in BothObjects :
        /\ objects' = Csv_save_object(objects, item)
        /\ mirror' = [mirror EXCEPT !.objects = Sheets_save_object(@, item)]
        /\ last' = Returned("save_object", item.id, Pair(None, None))
        /\ UNCHANGED <<backend, failing, serving, inflight, places, tags, logs, audit, clock>>

SavePlaceOnBoth ==
    \E item \in BothPlaces :
        /\ places' = Csv_save_place(places, item)
        /\ mirror' = [mirror EXCEPT !.places = Sheets_save_place(@, item)]
        /\ last' = Returned("save_place", item.id, Pair(None, None))
        /\ UNCHANGED <<backend, failing, serving, inflight, objects, tags, logs, audit, clock>>

SaveTagOnBoth ==
    \E item \in BothTags :
        /\ tags' = Csv_save_tag(tags, item)
        /\ mirror' = [mirror EXCEPT !.tags = Sheets_save_tag(@, item)]
        /\ last' = Returned("save_tag", item.id, Pair(None, None))
        /\ UNCHANGED <<backend, failing, serving, inflight, objects, places, logs, audit, clock>>

DeleteObjectOnBoth ==
    \E object_id \in CallIds :
        /\ objects' = Csv_delete_object(objects, object_id)
        /\ mirror' = [mirror EXCEPT !.objects = Sheets_delete_object(@, object_id)]
        /\ last' = Returned("delete_object", object_id, Pair(None, None))
        /\ UNCHANGED <<backend, failing, serving, inflight, places, tags, logs, audit, clock>>

DeletePlaceOnBoth ==
    /\ places' = Csv_delete_place(places, S("40000"))
    /\ mirror' = [mirror EXCEPT !.places = Sheets_delete_place(@, S("40000"))]
    /\ last' = Returned("delete_place", S("40000"), Pair(None, None))
    /\ UNCHANGED <<backend, failing, serving, inflight, objects, tags, logs, audit, clock>>

DeleteTagOnBoth ==
    /\ tags' = Csv_delete_tag(tags, S("20000"))
    /\ mirror' = [mirror EXCEPT !.tags = Sheets_delete_tag(@, S("20000"))]
    /\ last' = Returned("delete_tag", S("20000"), Pair(None, None))
    /\ UNCHANGED <<backend, failing, serving, inflight, objects, places, logs, audit, clock>>

DeleteObjectsByPlaceOnBoth ==
    \E place_id \in {<<>>, S("40000")} :
        LET res_csv == Csv_delete_objects_by_place(objects, place_id)
            res_sheets == Sheets_delete_objects_by_place(mirror.objects, place_id)
        IN  /\ objects' = res_csv.rows
            /\ mirror' = [mirror EXCEPT !.objects = res_sheets.rows]
            /\ last' = Returned("delete_objects_by_place", place_id,
                                Pair(res_csv.count, res_sheets.count))
            /\ UNCHANGED <<backend, failing, serving, inflight, places, tags, logs, audit, clock>>

AddLogOnBoth ==
    LET item == LogItem(clock + 1, S("10000"), S("40000"), S("x"))
    IN  /\ clock < MaxClock
        /\ Len(logs) < MaxLogs
        /\ logs' = Csv_add_log(logs, item)
        /\ mirror' = [mirror EXCEPT !.logs = Sheets_add_log(@, item)]
        /\ clock' = clock + 1
        /\ last' = Returned("add_log", <<>>, Pair(None, None))
        /\ UNCHANGED <<backend, failing, serving, inflight, objects, places, tags, audit>>

AddAuditOnBoth ==
    LET item == AuditLogItem(clock + 1, S("tag"), S("20000"), S("created"), S("n"))
    IN  /\ clock < MaxClock
        /\ audit' = Csv_add_audit(audit, item)
        /\ mirror' = [mirror EXCEPT !.audit = Sheets_add_audit(@, item)]
        /\ clock' = clock + 1
        /\ last' = Returned("add_audit", <<>>, Pair(None, None))
        /\ UNCHANGED <<backend, failing, serving, inflight, objects, places, tags, logs>>

GetOnBoth ==
    /\ \/ \E id \in CallIds :
            last' = Returned("get_object", id,
                             Pair(call_get_object("csv", objects, id),
                                  call_get_object("sheets", mirror.objects, id)))
       \/ \E id \in PlaceIds :
            last' = Returned("get_place", id,
                             Pair(call_get_place("csv", places, id),
                                  call_get_place("sheets", mirror.places, id)))
       \/ \E id \in TagIds :
            last' = Returned("get_tag", id,
                             Pair(call_get_tag("csv", tags, id),
                                  call_get_tag("sheets", mirror.tags, id)))
    /\ UNCHANGED <<backend, failing, serving, inflight, mirror, objects, places, tags, logs, audit, clock>>

ListOnBoth ==
    /\ \/ last' = Returned("list_objects", <<>>,
                           Pair(Csv_list_objects(objects), Sheets_list_objects(mirror.objects)))
       \/ last' = Returned("list_places", <<>>,
                           Pair(Csv_list_places(places), Sheets_list_places(mirror.places)))
       \/ last' = Returned("list_tags", <<>>,
                           Pair(Csv_list_tags(tags), Sheets_list_tags(mirror.tags)))
       \/ last' = Returned("list_logs", <<>>,
                           Pair(Csv_list_logs(logs), Sheets_list_logs(mirror.logs)))
       \/ last' = Returned("list_audit", <<>>,
                           Pair(Csv_list_audit(audit), Sheets_list_audit(mirror.audit)))
    /\ UNCHANGED <<backend, failing, serving, inflight, mirror, objects, places, tags, logs, audit, clock>>

NextBoth ==
    \/ SaveObjectOnBoth
    \/ SavePlaceOnBoth
    \/ SaveTagOnBoth
    \/ DeleteObjectOnBoth
    \/ DeletePlaceOnBoth
    \/ DeleteTagOnBoth
    \/ DeleteObjectsByPlaceOnBoth
    \/ AddLogOnBoth
    \/ AddAuditOnBoth
    \/ GetOnBoth
    \/ ListOnBoth

SpecBoth == InitCsv /\ [][NextBoth]_vars

(***************************************************************************)
(* What a request did: the object it addressed before and after it, and    *)
(* the log entries it appended                                             *)
(***************************************************************************)
Before(id) == get_object(backend, objects, id)

After(id) == get_object(backend, objects', id)

LogsKept ==
    /\ Len(logs') >= Len(logs)
    /\ SubSeq(list_logs(backend, logs'), 1, Len(logs)) = list_logs(backend, logs)

NewLogs == SubSeq(list_logs(backend, logs'), Len(logs) + 1, Len(logs'))

IsMoveLog(e) == e.notes = S("auto: moved object")

IsTagLog(e) == e.notes # <<>> /\ e.notes[1] = "auto: tags "

(***************************************************************************)
(* C1: every stored Object has put_at null exactly when its place_id is    *)
(* empty, in every state reached by create-object, update-object and       *)
(* create-log requests.                                                    *)
(***************************************************************************)
PutAtNullIffNoPlace ==
    \A i \in 1..Len(objects) :
        LET o == list_objects(backend, objects)[i]
        IN  (o.put_at = NoDate) <=> (o.place_id = <<>>)

(***************************************************************************)
(* C2: when update_object clears the place of a stored Object (place_id    *)
(* from non-empty to empty), the stored put_at becomes null and no         *)
(* LogEntry is appended for the place transition.                          *)
(***************************************************************************)
ClearsPlace ==
    /\ last'.op = "update_object"
    /\ Before(last'.id) # None
    /\ Before(last'.id).place_id # <<>>
    /\ last'.place_id = <<>>

\* C2: clearing the place nulls the stored put_at and appends no move log
PlaceClearedNullsPutAt ==
    [][ClearsPlace =>
          /\ After(last'.id).put_at = NoDate
          /\ LogsKept
          /\ \A i \in 1..Len(NewLogs) : IsTagLog(NewLogs[i])]_vars

(***************************************************************************)
(* C8: creating an Object with a non-empty place_id appends exactly one    *)
(* LogEntry (the new id, the given place, notes "auto: created object")    *)
(* whose timestamp is the creation time and is the stored put_at; creating *)
(* an Object with an empty place_id appends no LogEntry.                   *)
(***************************************************************************)
CreateObjectLogs ==
    [][last'.op = "create_object" =>
          IF last'.place_id # <<>>
          THEN /\ clock' > clock
               /\ list_logs(backend, logs') =
                      Append(list_logs(backend, logs),
                             LogItem(clock', last'.id, last'.place_id,
                                     S("auto: created object")))
               /\ After(last'.id).put_at = clock'
          ELSE logs' = logs]_vars

CreateObjectLogsWitness ==
    /\ last.op = "create_object"
    /\ last.place_id # <<>>
    /\ Len(logs) = 2
    /\ list_logs(backend, logs)[2].notes = S("auto: created object")
    /\ list_logs(backend, logs)[2].object_id = last.id

(***************************************************************************)
(* C9: updating a stored Object from a non-empty place_id A to a different *)
(* non-empty place_id B appends exactly one LogEntry with notes            *)
(* "auto: moved object" and place_id B, and the stored put_at becomes the  *)
(* update time, which is that LogEntry's timestamp.                        *)
(***************************************************************************)
MovesPlace ==
    /\ last'.op = "update_object"
    /\ Before(last'.id) # None
    /\ Before(last'.id).place_id # <<>>
    /\ last'.place_id # <<>>
    /\ last'.place_id # Before(last'.id).place_id

\* C9: a move from A to B appends one move log for B, stamped with the
\* new put_at, the time of the update
UpdateObjectMoveLogs ==
    [][MovesPlace =>
          /\ LogsKept
          /\ \E i \in 1..Len(NewLogs) :
                 /\ NewLogs[i] = LogItem(After(last'.id).put_at, last'.id,
                                         last'.place_id, S("auto: moved object"))
                 /\ \A j \in 1..Len(NewLogs) : IsMoveLog(NewLogs[j]) => j = i
          /\ After(last'.id).put_at > clock
          /\ After(last'.id).put_at <= clock']_vars

UpdateObjectMoveLogsWitness ==
    /\ last.op = "update_object"
    /\ last.place_id = S("40001")
    /\ Len(logs) = 2
    /\ list_logs(backend, logs)[1] = LogItem(1, last.id, S("40000"), S("auto: created object"))
    /\ list_logs(backend, logs)[2] = LogItem(2, last.id, S("40001"), S("auto: moved object"))
    /\ get_object(backend, objects, last.id).put_at = 2

(***************************************************************************)
(* C10: on update_object, with added = new tags minus previous tags and    *)
(* removed = previous tags minus new tags: when both are empty no tag      *)
(* LogEntry is appended; otherwise exactly one is appended.  As claimed,   *)
(* its notes show every added tag prefixed with + and every removed tag    *)
(* prefixed with - (TagLogPrefixesEveryTag).  As amended, its notes are    *)
(* "auto: tags " and then one group "+" with the sorted added tags joined  *)
(* by commas, if any, and one group "-" with the sorted removed tags       *)
(* joined by commas, if any, the groups separated by one blank             *)
(* (TagLogEncodesDiff).                                                    *)
(***************************************************************************)
PrevTags == IF Before(last'.id) = None THEN {} ELSE SeqToSet(Before(last'.id).tags)

NewTags == SeqToSet(StripList(last'.tags))

AddedTags == NewTags \ PrevTags

RemovedTags == PrevTags \ NewTags

TagLogs == SelectSeq(NewLogs, IsTagLog)

\* the tag text t stands in the notes right after the sign
Prefixed(notes, sign, t) ==
    \E i \in 1..Len(notes) :
        notes[i] = sign /\ SubSeq(notes, i + 1, i + Len(t)) = t

OneTagLogIffDiff ==
    /\ LogsKept
    /\ Len(TagLogs) = IF AddedTags = {} /\ RemovedTags = {} THEN 0 ELSE 1

\* C10 as claimed: one tag log iff the tag sets differ, every added tag
\* right after a + and every removed tag right after a -
TagLogPrefixesEveryTag ==
    [][last'.op = "update_object" =>
          /\ OneTagLogIffDiff
          /\ \A i \in 1..Len(TagLogs) :
                 /\ \A t \in AddedTags : Prefixed(TagLogs[i].notes, "+", t)
                 /\ \A t \in RemovedTags : Prefixed(TagLogs[i].notes, "-", t)]_vars

\* the groups of the notes that start with the sign, each without its sign
\* and cut at the commas
Groups(notes, sign) ==
    LET all == split(Tail(notes), " ")
        mine == SelectSeq(all, LAMBDA g : g # <<>> /\ g[1] = sign)
    IN  [i \in 1..Len(mine) |-> split(Tail(mine[i]), ",")]

NotesEncode(notes, added, removed) ==
    /\ Groups(notes, "+") = IF added = {} THEN <<>> ELSE <<sorted(added)>>
    /\ Groups(notes, "-") = IF removed = {} THEN <<>> ELSE <<sorted(removed)>>
    /\ Len(split(Tail(notes), " ")) =
           Len(Groups(notes, "+")) + Len(Groups(notes, "-"))
    /\ (added # {} /\ removed # {}) => split(Tail(notes), " ")[1][1] = "+"

\* C10 as amended: one tag log iff the tag sets differ, its notes one +
\* group of the sorted added tags and one - group of the sorted removed tags
TagLogEncodesDiff ==
    [][last'.op = "update_object" =>
          /\ OneTagLogIffDiff
          /\ \A i \in 1..Len(TagLogs) :
                 NotesEncode(TagLogs[i].notes, AddedTags, RemovedTags)]_vars

TagLogEncodesDiffWitness ==
    /\ last.op = "update_object"
    /\ last.tags = <<S("b"), S("c")>>
    /\ logs # <<>>
    /\ list_logs(backend, logs)[Len(logs)].notes =
           <<"auto: tags ", "+", "c", " ", "-", "a">>
    /\ SeqToSet(get_object(backend, objects, last.id).tags) = {S("b"), S("c")}

(***************************************************************************)
(* C3: each stored Object's place_id is empty or the id of a stored Place, *)
(* in every state reached by create/update object, create-log,             *)
(* create/delete place and delete-all-objects requests.                    *)
(***************************************************************************)
PlaceIdRefersToStoredPlace ==
    \A i \in 1..Len(objects) :
        LET o == list_objects(backend, objects)[i]
        IN  o.place_id = <<>> \/ get_place(backend, places, o.place_id) # None

(***************************************************************************)
(* C6: a delete-place request for a stored Place that some Object          *)
(* references is rejected and leaves the places and objects tables as they *)
(* were; for a stored Place that no Object references it succeeds and      *)
(* removes exactly one row, that Place's, from the places table.           *)
(***************************************************************************)
Referenced(place_id) ==
    \E i \in 1..Len(objects) :
        list_objects(backend, objects)[i].place_id = place_id

\* C6: a referenced Place is kept and nothing changes; an unreferenced one
\* loses exactly its row
DeletePlaceGuard ==
    [][(last'.op = "delete_place" /\ get_place(backend, places, last'.id) # None) =>
          IF Referenced(last'.id)
          THEN /\ last'.status = 200
               /\ places' = places
               /\ objects' = objects
          ELSE /\ last'.status = 302
               /\ Len(places') = Len(places) - 1
               /\ get_place(backend, places', last'.id) = None
               /\ \A i \in 1..Len(places) :
                      places[i].id # last'.id =>
                          get_place(backend, places', places[i].id) =
                              get_place(backend, places, places[i].id)
               /\ objects' = objects]_vars

DeletePlaceGuardWitness ==
    /\ last.op = "delete_place"
    /\ last.status = 200
    /\ get_place(backend, places, last.id) # None
    /\ \E i \in 1..Len(objects) :
           list_objects(backend, objects)[i].place_id = last.id

(***************************************************************************)
(* C7: a delete-tag request for a stored Tag whose id occurs in the tags   *)
(* of a stored Object or a stored Place is rejected and leaves the tags    *)
(* table as it was; for a stored Tag that none of them carries it succeeds *)
(* and the Tag is removed.                                                 *)
(***************************************************************************)
TagOnObject(tag_id) ==
    \E i \in 1..Len(objects) :
        tag_id \in SeqToSet(list_objects(backend, objects)[i].tags)

TagOnPlace(tag_id) ==
    \E i \in 1..Len(places) :
        tag_id \in SeqToSet(list_places(backend, places)[i].tags)

\* C7: a Tag carried by an Object or a Place is kept and the tags table is
\* unchanged; otherwise the Tag is removed
DeleteTagGuard ==
    [][(last'.op = "delete_tag" /\ get_tag(backend, tags, last'.id) # None) =>
          IF TagOnObject(last'.id) \/ TagOnPlace(last'.id)
          THEN /\ last'.status = 200
               /\ tags' = tags
          ELSE /\ last'.status = 302
               /\ get_tag(backend, tags', last'.id) = None
               /\ Len(tags') = Len(tags) - 1]_vars

DeleteTagGuardWitness ==
    /\ last.op = "delete_tag"
    /\ last.status = 200
    /\ get_tag(backend, tags, last.id) # None
    /\ ~TagOnObject(last.id)
    /\ TagOnPlace(last.id)

(***************************************************************************)
(* C4: in both backends and for every kind, save_<kind>(item) followed by  *)
(* get_<kind>(item.id) returns a record equal to item field by field.      *)
(***************************************************************************)
SaveGetRoundTrip ==
    last.op \in {"save_object", "save_place", "save_tag"} => last.got = last.item

(***************************************************************************)
(* C5: save_<kind>(item) with an id that is stored replaces all fields of  *)
(* that row with item's, and after any sequence of saves into a table      *)
(* without duplicates the table holds exactly one row for each saved id.   *)
(***************************************************************************)
RowsOf(rows, id) == {i \in 1..Len(rows) : rows[i].id = id}

\* the save of a row into before gave after: one row for the id, holding
\* the saved cells where the id's row was, or at the end if it had none
Upserted(before, after, row) ==
    /\ Cardinality(RowsOf(after, row.id)) = 1
    /\ \A i \in RowsOf(after, row.id) : after[i] = row
    /\ IF RowsOf(before, row.id) # {}
       THEN /\ Len(after) = Len(before)
            /\ RowsOf(after, row.id) = RowsOf(before, row.id)
       ELSE /\ Len(after) = Len(before) + 1
            /\ RowsOf(after, row.id) = {Len(after)}
    /\ \A i \in 1..Len(after) : Cardinality(RowsOf(after, after[i].id)) = 1

\* C5: every save leaves exactly one row per id, the saved id's row holding
\* the saved fields
UpsertKeepsOneRowPerId ==
    [][/\ last'.op = "save_object" => Upserted(objects, objects', ObjectRow(last'.item))
       /\ last'.op = "save_place" => Upserted(places, places', PlaceRow(last'.item))
       /\ last'.op = "save_tag" => Upserted(tags, tags', TagRow(last'.item))]_vars

UpsertKeepsOneRowPerIdWitness ==
    /\ last.op = "save_object"
    /\ Len(objects) = 2
    /\ objects[1] = ObjectRow(last.item)
    /\ last.item.place_id = S("40000")
    /\ objects[2].place_id = <<>>
    /\ Len(places) = 2
    /\ Len(tags) = 2

(***************************************************************************)
(* C11: in both backends and for every objects table,                      *)
(* delete_objects_by_place(pid) removes every Object whose place_id is     *)
(* pid, removes no other Object, and returns the number it removed; the    *)
(* same call made again right after returns 0 and changes nothing.         *)
(***************************************************************************)
InPlace(items, place_id) == {i \in 1..Len(items) : items[i].place_id = place_id}

\* C11: the call leaves the objects of the other places, as they were and
\* in their order, returns the count of the removed ones, and a repeated
\* call returns 0 and leaves the table alone
DeleteObjectsByPlaceRemovesExactly ==
    [][last'.op = "delete_objects_by_place" =>
         LET before == list_objects(backend, objects)
             after == list_objects(backend, objects')
         IN  /\ after = SelectSeq(before, LAMBDA o : o.place_id # last'.arg)
             /\ last'.result = Cardinality(InPlace(before, last'.arg))
             /\ (last.op = "delete_objects_by_place" /\ last.arg = last'.arg)
                    => (last'.result = 0 /\ objects' = objects)]_vars

DeleteObjectsByPlaceRemovesExactlyWitness ==
    /\ last.op = "delete_objects_by_place"
    /\ last.arg = S("40000")
    /\ last.result = 2
    /\ Len(objects) = 1
    /\ Len(places) = 1

(***************************************************************************)
(* C12: the id that create_object, create_place and create_tag generate is *)
(* a string of exactly 5 ASCII digits and is not the id of any record of   *)
(* the same kind stored when the new record is saved, however many         *)
(* records are created one after the other.                                *)
(***************************************************************************)
\* id is str(n) of a number n that randint(lo, 99999) draws, and n has 5 digits
FiveDigits(id, lo) ==
    \E n \in randint(lo, 99999) : id = str(n) /\ Len(digits(n)) = 5

\* C12: a create request stores its record under a 5-digit id that no row
\* of the table had, as one more row
GeneratedIdIsFresh ==
    [][/\ last'.op = "create_object" =>
            /\ FiveDigits(last'.id, 10000)
            /\ get_object(backend, objects, last'.id) = None
            /\ RowsOf(objects, last'.id) = {}
            /\ RowsOf(objects', last'.id) = {Len(objects) + 1}
       /\ last'.op = "create_place" =>
            /\ FiveDigits(last'.id, 40000)
            /\ get_place(backend, places, last'.id) = None
            /\ RowsOf(places, last'.id) = {}
            /\ RowsOf(places', last'.id) = {Len(places) + 1}
       /\ last'.op = "create_tag" =>
            /\ FiveDigits(last'.id, 20000)
            /\ get_tag(backend, tags, last'.id) = None
            /\ RowsOf(tags, last'.id) = {}
            /\ RowsOf(tags', last'.id) = {Len(tags) + 1}]_vars

GeneratedIdIsFreshWitness ==
    /\ last.op = "create_tag"
    /\ Len(tags) = 2
    /\ tags[1].id # tags[2].id
    /\ Len(objects) = 2
    /\ objects[1].id # objects[2].id
    /\ Len(places) = 1

(***************************************************************************)
(* C13: for every id that is not present in a table, get_<kind>(id)        *)
(* returns None and never raises, for every table content and in both      *)
(* backends.                                                               *)
(***************************************************************************)
Absent(rows, id) == RowsOf(rows, id) = {}

\* every put_at cell is empty or a timestamp in ISO form
RowsParse(rows) ==
    \A i \in 1..Len(rows) :
        rows[i].put_at = <<>> \/ \E t \in Times : rows[i].put_at = isoformat(t)

\* C13 as stated: a get of an id that no row has returns None, whatever
\* the rows of the table are
GetAbsentReturnsNone ==
    /\ (last.op = "get_object" /\ Absent(objects, last.arg)) => last.result = None
    /\ (last.op = "get_place" /\ Absent(places, last.arg)) => last.result = None
    /\ (last.op = "get_tag" /\ Absent(tags, last.arg)) => last.result = None

\* C13 amended: a get of an id that no row has returns None if every row
\* of the table parses, and raises ValueError if the put_at of some row of
\* an objects or places table does not
GetAbsentReturnsNoneIfRowsParse ==
    /\ (last.op = "get_object" /\ Absent(objects, last.arg)) =>
           last.result = IF RowsParse(objects) THEN None ELSE ValueError
    /\ (last.op = "get_place" /\ Absent(places, last.arg)) =>
           last.result = IF RowsParse(places) THEN None ELSE ValueError
    /\ (last.op = "get_tag" /\ Absent(tags, last.arg)) => last.result = None

GetAbsentReturnsNoneIfRowsParseWitness ==
    /\ last.op = "get_object"
    /\ Absent(objects, last.arg)
    /\ Len(objects) = 2
    /\ objects[2].put_at = isoformat(0)
    /\ RowsParse(objects)
    /\ last.result = None
    /\ ~RowsParse(places)

(***************************************************************************)
(* C14: logs and audit entries are append-only: for every operation, what  *)
(* list_logs (resp. list_audit) returned before it is a prefix of what it  *)
(* returns after it; no entry is removed, modified or reordered, and new   *)
(* entries follow in insertion order.                                      *)
(***************************************************************************)
AuditKept ==
    /\ Len(audit') >= Len(audit)
    /\ SubSeq(list_audit(backend, audit'), 1, Len(audit)) = list_audit(backend, audit)

\* C14: every request leaves the entries of both tables as a prefix
LogsAndAuditAppendOnly == [][LogsKept /\ AuditKept]_vars

LogsAndAuditAppendOnlyWitness ==
    /\ Len(logs) = 1
    /\ Len(audit) = 2
    /\ audit[1].action # audit[2].action
    /\ last.op = "delete_all_objects"

(***************************************************************************)
(* C15: every create, update or delete of a Place or Tag that is performed *)
(* appends exactly one AuditEntry with the matching entity_type, entity_id *)
(* and action (created / updated / deleted); a delete request that a guard *)
(* rejects or that answers not-found appends no AuditEntry.                *)
(***************************************************************************)
\* the request appended one entry, and it names the entity and the action
OneAuditEntry(entity_type, entity_id, action) ==
    /\ AuditKept
    /\ Len(audit') = Len(audit) + 1
    /\ LET e == list_audit(backend, audit')[Len(audit')]
       IN  /\ e.entity_type = S(entity_type)
           /\ e.entity_id = entity_id
           /\ e.action = S(action)

\* C15: the place and tag requests that write append their one entry, the
\* delete requests that do not write append none, and no place or tag row
\* changes without an entry
AuditOnPlaceAndTagWrites ==
    [][/\ last'.op = "create_place" =>
            /\ get_place(backend, places', last'.id) # None
            /\ OneAuditEntry("place", last'.id, "created")
       /\ last'.op = "update_place" =>
            /\ get_place(backend, places', last'.id) # None
            /\ OneAuditEntry("place", last'.id, "updated")
       /\ (last'.op = "delete_place" /\ last'.status = 302) =>
            /\ get_place(backend, places, last'.id) # None
            /\ get_place(backend, places', last'.id) = None
            /\ OneAuditEntry("place", last'.id, "deleted")
       /\ (last'.op = "delete_place" /\ last'.status # 302) =>
            /\ places' = places
            /\ audit' = audit
       /\ last'.op = "create_tag" =>
            /\ get_tag(backend, tags', last'.id) # None
            /\ OneAuditEntry("tag", last'.id, "created")
       /\ last'.op = "update_tag" =>
            /\ get_tag(backend, tags', last'.id) # None
            /\ OneAuditEntry("tag", last'.id, "updated")
       /\ (last'.op = "delete_tag" /\ last'.status = 302) =>
            /\ get_tag(backend, tags, last'.id) # None
            /\ get_tag(backend, tags', last'.id) = None
            /\ OneAuditEntry("tag", last'.id, "deleted")
       /\ (last'.op = "delete_tag" /\ last'.status # 302) =>
            /\ tags' = tags
            /\ audit' = audit
       /\ (places' # places \/ tags' # tags) => Len(audit') = Len(audit) + 1]_vars

AuditOnPlaceAndTagWritesWitness ==
    /\ last.op = "delete_tag"
    /\ last.status = 302
    /\ Len(audit) = 3
    /\ audit[1].action = S("created")
    /\ audit[2].action = S("updated")
    /\ audit[3].action = S("deleted")
    /\ audit[3].entity_type = S("tag")
    /\ audit[3].entity_id = last.id

Others(rows, id) == SelectSeq(rows, LAMBDA r : r.id # id)

\* the row saved before stays what get returned for it, next to the new one
BothRetrievable(got_before, got_first, got_second) ==
    /\ got_first = got_before
    /\ got_first # None
    /\ got_second # None

\* C17: a save changes no row of another id, and the record of the save
\* before it is still returned as it was
SaveKeepsOtherRows ==
    [][/\ last'.op = "save_object" =>
            /\ Others(objects', last'.item.id) = Others(objects, last'.item.id)
            /\ (last.op = "save_object" /\ last.item.id # last'.item.id) =>
                   BothRetrievable(last.got,
                                   get_object(backend, objects', last.item.id),
                                   get_object(backend, objects', last'.item.id))
       /\ last'.op = "save_place" =>
            /\ Others(places', last'.item.id) = Others(places, last'.item.id)
            /\ (last.op = "save_place" /\ last.item.id # last'.item.id) =>
                   BothRetrievable(last.got,
                                   get_place(backend, places', last.item.id),
                                   get_place(backend, places', last'.item.id))
       /\ last'.op = "save_tag" =>
            /\ Others(tags', last'.item.id) = Others(tags, last'.item.id)
            /\ (last.op = "save_tag" /\ last.item.id # last'.item.id) =>
                   BothRetrievable(last.got,
                                   get_tag(backend, tags', last.item.id),
                                   get_tag(backend, tags', last'.item.id))]_vars

SaveKeepsOtherRowsWitness ==
    /\ last.op = "save_place"
    /\ Len(places) = 2
    /\ places[2] = PlaceRow(last.item)
    /\ places[1].id # last.item.id
    /\ places[1].tags # places[2].tags
    /\ get_place(backend, places, places[1].id) # None

(***************************************************************************)
(* C18: delete_<kind>(id) removes the record with that id and leaves every *)
(* other row unchanged and in order; it is a no-op when no record has the  *)
(* id.                                                                     *)
(***************************************************************************)
\* after is before without the id's row, and before itself if it had none
Deleted(before, after, id) ==
    /\ after = Others(before, id)
    /\ Absent(after, id)
    /\ Absent(before, id) => after = before

\* C18: a delete takes the id's row out of its table and nothing else
DeleteRemovesOnlyThatRow ==
    [][/\ last'.op = "delete_object" =>
            /\ Deleted(objects, objects', last'.arg)
            /\ get_object(backend, objects', last'.arg) = None
       /\ last'.op = "delete_place" =>
            /\ Deleted(places, places', last'.arg)
            /\ get_place(backend, places', last'.arg) = None
       /\ last'.op = "delete_tag" =>
            /\ Deleted(tags, tags', last'.arg)
            /\ get_tag(backend, tags', last'.arg) = None]_vars

DeleteRemovesOnlyThatRowWitness ==
    /\ last.op = "delete_object"
    /\ last.arg = S("10001")
    /\ Len(objects) = 2
    /\ objects[1].id = S("10000")
    /\ objects[2].id = S("10002")
    /\ objects[1].place_id # objects[2].place_id
    /\ Len(tags) = 1

(***************************************************************************)
(* C19: in the flat-file backend no lock serialises save_*: two concurrent *)
(* save_* calls on one table can interleave as read, read, write, write,   *)
(* and then the last writer wins: the final table is the second writer's   *)
(* snapshot (with its own change) and the first writer's change is lost.   *)
(***************************************************************************)
\* caller w writes in this step
Writes(w) == inflight[w].pc = "read" /\ inflight'[w].pc = "done"

\* caller f has written after caller w read: w's rows are stale
WroteSince(f, w) ==
    /\ f # w
    /\ inflight[f].pc = "done"
    /\ inflight[f].write_at > inflight[w].read_at

\* C19: a write puts the writer's snapshot with its item in place of the
\* table, so that what a caller wrote since the snapshot was read is gone:
\* its id holds what the snapshot held for it
LastWriterWins ==
    [][\A w \in Callers : Writes(w) =>
          /\ objects' = Csv_save_object(inflight[w].rows, inflight[w].item)
          /\ \A f \in Callers :
                (WroteSince(f, w) /\ inflight[f].item.id # inflight[w].item.id) =>
                    get_object(backend, objects', inflight[f].item.id)
                        = get_object(backend, inflight[w].rows, inflight[f].item.id)]_vars

\* a and b have interleaved as read, read, write, write after c's save, and
\* the table holds b's record and c's but not a's
LastWriterWinsWitness ==
    /\ inflight["c"].pc = "done" /\ inflight["c"].write_at = 2
    /\ inflight["a"].pc = "done" /\ inflight["b"].pc = "done"
    /\ inflight["a"].read_at = 3 /\ inflight["b"].read_at = 4
    /\ inflight["a"].write_at = 5 /\ inflight["b"].write_at = 6
    /\ inflight["a"].item.id = S("10000")
    /\ inflight["b"].item.id = S("10001")
    /\ inflight["c"].item.id = S("10002")
    /\ get_object(backend, objects, S("10000")) = None
    /\ get_object(backend, objects, S("10001")) = inflight["b"].item
    /\ get_object(backend, objects, S("10002")) = inflight["c"].item

(***************************************************************************)
(* C20: for every sequence of interface calls made one after the other     *)
(* (save, delete, get and list per kind, delete_objects_by_place, add_log, *)
(* add_audit) on tables that start empty, the flat-file backend and the    *)
(* spreadsheet backend return the same results from every list_*, get_*    *)
(* and delete_objects_by_place call.                                       *)
(***************************************************************************)
ReturningCalls ==
    {"get_object", "get_place", "get_tag", "list_objects", "list_places",
     "list_tags", "list_logs", "list_audit", "delete_objects_by_place"}

Outage ==
    /\ failing' = ~failing
    /\ UNCHANGED <<backend, serving, objects, places, tags, logs, audit, clock, last,
                   inflight, mirror>>

NextFail ==
    \/ Outage
    \/ CreateObject({S("40000")}, {<<>>})
    \/ UpdateObject({S("10000")}, {<<>>, S("40001")}, {<<>>})
    \/ CreatePlace({<<>>})
    \/ update_place(S("40000"), S("m"), <<>>, <<>>, <<>>, {}, <<>>)
    \/ CreateTag
    \/ update_tag(S("20000"), S("m"))

SpecFail == Init /\ [][NextFail]_vars

(***************************************************************************)
(* C21: when the primary save of a create or update request raises         *)
(* (save_object, save_place, save_tag), the request ends in an error and   *)
(* not in its redirect, and neither a log entry nor an audit entry is      *)
(* appended for it.                                                        *)
(***************************************************************************)
SavingRequests ==
    {"create_object", "update_object", "create_place", "update_place",
     "create_tag", "update_tag"}

\* a request is served in this step while the storage is failing
ServedWhileFailing == failing /\ failing' /\ last'.op \in SavingRequests

\* C21: a save that raises ends the request in an error, and the request
\* appends nothing to the logs or to the audit table
SaveFailureIsNotSwallowed ==
    [][ServedWhileFailing =>
           /\ last'.status >= 400
           /\ logs' = logs
           /\ audit' = audit]_vars

SaveFailureIsNotSwallowedWitness ==
    /\ failing
    /\ last.op = "create_object"
    /\ last.status = 500
    /\ last.place_id = S("40000")
    /\ Len(objects) = 1
    /\ Len(logs) = 1
    /\ Len(audit) = 1

(***************************************************************************)
(* Requests that carry photo uploads.  The uploads of the request being    *)
(* received are held in inflight["a"].rows until a handler is given them.  *)
(***************************************************************************)
MaxPhotos == 2

\* the uploads of a form: the i-th has the URL "u<i>" if it is stored; its
\* read may fail, its data may be empty, its upload may fail
UploadKinds(url) ==
    {Upload(TRUE, S("x"), TRUE, S(url)), Upload(FALSE, <<>>, TRUE, S(url)),
     Upload(TRUE, <<>>, TRUE, S(url)), Upload(TRUE, S("x"), FALSE, S(url))}

UploadLists ==
    {<<>>} \cup {<<a>> : a \in UploadKinds("u1")}
           \cup {<<a, b>> : a \in UploadKinds("u1"), b \in UploadKinds("u2")}

Received == inflight["a"].rows

\* a multipart form arrives
ReceiveUploads ==
    \E uploads \in UploadLists :
        /\ inflight' = [inflight EXCEPT !["a"] =
                            [IdleCall EXCEPT !.pc = "received", !.rows = uploads]]
        /\ UNCHANGED <<backend, failing, serving, mirror, objects, places, tags, logs, audit,
                       clock, last>>

CreateObjectWithUploads ==
    /\ inflight["a"].pc = "received"
    /\ create_object(S("n"), <<>>, <<>>, <<>>, Received, <<>>)

UpdateObjectWithUploads ==
    /\ inflight["a"].pc = "received"
    /\ LET got == get_object(backend, objects, S("10000"))
       IN  (IF got = None THEN 0 ELSE Len(got.images_photo)) + Len(Received) <= MaxPhotos
    /\ update_object(S("10000"), S("n"), <<>>, <<>>, <<>>, Received, {}, <<>>)

NextUploads ==
    \/ ReceiveUploads
    \/ CreateObjectWithUploads
    \/ UpdateObjectWithUploads

SpecUploads == Init /\ [][NextUploads]_vars

(***************************************************************************)
(* C22: _save_uploaded_photos returns, in input order, one URL for each    *)
(* upload whose read and upload_file_bytes both succeed on non-empty       *)
(* data; an upload that fails or is empty is skipped, the uploads after    *)
(* it are still handled, and the entity is saved all the same.             *)
(***************************************************************************)
Stored(up) == up.read_ok /\ up.data # <<>> /\ up.upload_ok

\* the URLs of the uploads that are stored, in the order of the form
StoredUrls(uploads) ==
    LET kept == SelectSeq(uploads, Stored)
    IN  [i \in 1..Len(kept) |-> kept[i].url]

PhotosBefore(id) == IF Before(id) = None THEN <<>> ELSE Before(id).images_photo

\* C22: the request ends in its redirect, and the object is saved with its
\* previous photos followed by the URLs of the stored uploads
UploadsAreBestEffort ==
    [][last'.op \in {"create_object", "update_object"} /\ inflight' = inflight =>
           /\ last'.status = 302
           /\ After(last'.id) # None
           /\ After(last'.id).images_photo =
                  PhotosBefore(last'.id) \o StoredUrls(Received)]_vars

\* a failed upload came first and the second was stored all the same, on
\* top of a photo the object already had
UploadsAreBestEffortWitness ==
    /\ last.op = "update_object"
    /\ Len(Received) = 2
    /\ ~Received[1].upload_ok
    /\ Stored(Received[2])
    /\ get_object(backend, objects, S("10000")) # None
    /\ get_object(backend, objects, S("10000")).images_photo = <<S("u1"), S("u2")>>

(***************************************************************************)
(* C23: on the spreadsheet backend, delete_objects_by_place takes the row  *)
(* indices of the matching rows from one fetch and deletes them from the   *)
(* highest index down, so that exactly the rows that matched are gone and  *)
(* the rows that did not match remain, in their order.                     *)
(***************************************************************************)
\* the rows of a table that are not of the place, in the order of the table
RowsElsewhere(rows, place_id) == SelectSeq(rows, LAMBDA r : r.place_id # place_id)

\* C23: after the call the worksheet holds the rows that did not match,
\* unchanged and in their order, and as many rows are gone as matched
SheetsBulkDeleteRemovesMatchingRows ==
    [][backend = "sheets" /\ last'.op = "delete_objects_by_place" =>
           /\ objects' = RowsElsewhere(objects, last'.arg)
           /\ Len(objects) - Len(objects') = last'.result]_vars

\* two rows matched and the row after them did not
SheetsBulkDeleteRemovesMatchingRowsWitness ==
    /\ backend = "sheets"
    /\ last.op = "delete_objects_by_place"
    /\ last.arg = S("40000")
    /\ last.result = 2
    /\ Len(objects) = 1
    /\ objects[1].id = S("10002")
    /\ objects[1].place_id = <<>>

(***************************************************************************)
(* Create and update requests, the update requests addressed to any id of  *)
(* the path: a generated one, a short number, a word.                      *)
(***************************************************************************)
\* the numbers whose decimal form the requests of the model use as an id
IdNumbers ==
    randint(10000, 99999) \cup randint(20000, 99999) \cup randint(40000, 99999) \cup {7}

\* {object_id}, {place_id}, {tag_id} of the path: any string
PathIds == {str(7), S("abc")}

NextPaths ==
    \/ CreateObject({<<>>}, {<<>>})
    \/ UpdateObject({S("10000"), str(7)}, {<<>>}, {<<>>})
    \/ CreatePlace({<<>>})
    \/ update_place(S("abc"), S("m"), <<>>, <<>>, <<>>, {}, <<>>)
    \/ CreateTag
    \/ \E tag_id \in PathIds : update_tag(tag_id, S("m"))

SpecPaths == Init /\ [][NextPaths]_vars

(***************************************************************************)
(* C24: every id of a stored Object, Place or Tag is a string of 5 decimal *)
(* digits, in every state that create and update requests can reach,       *)
(* update requests addressed to an id that is not stored included.         *)
(***************************************************************************)
\* id is the decimal form of a number of five digits
FiveDigitId(id) == \E n \in IdNumbers : id = str(n) /\ Len(digits(n)) = 5

\* C24: the ids of all stored rows have five digits
StoredIdsHaveFiveDigits ==
    /\ \A i \in 1..Len(objects) : FiveDigitId(objects[i].id)
    /\ \A i \in 1..Len(places) : FiveDigitId(places[i].id)
    /\ \A i \in 1..Len(tags) : FiveDigitId(tags[i].id)

(***************************************************************************)
(* Objects that are created, moved, retagged and logged while tags are     *)
(* created, so that the audit table is not empty.                          *)
(***************************************************************************)
NextObjects ==
    \/ CreateObject({<<>>, S("40000")}, {<<>>, <<S("a")>>})
    \/ UpdateObject({S("10000")}, {<<>>, S("40000"), S("40001")}, {<<>>, <<S("b")>>})
    \/ CreateLog({S("10000")}, {S("40001")}, {<<>>})
    \/ CreateTag

SpecObjects == Init /\ [][NextObjects]_vars

(***************************************************************************)
(* C25: create_object, update_object and create_log leave the audit table  *)
(* unchanged, whatever the place and the tags of the Object become.        *)
(***************************************************************************)
ObjectRequests == {"create_object", "update_object", "create_log"}

\* C25: a request on an Object appends or changes no audit entry
ObjectRequestsLeaveAudit ==
    [][last'.op \in ObjectRequests => audit' = audit]_vars

\* an update moved and retagged an Object, writing two logs, with an audit
\* entry in the table
ObjectRequestsLeaveAuditWitness ==
    /\ last.op = "update_object"
    /\ last.place_id = S("40001")
    /\ last.tags = <<S("b")>>
    /\ Len(logs) = 2
    /\ Len(audit) = 1

(***************************************************************************)
(* C30: an update of a stored Object that submits the place_id the Object  *)
(* already has, not empty, appends no "auto: moved object" entry and       *)
(* leaves the stored put_at as it was.                                     *)
(***************************************************************************)
\* the request being served updates a stored Object and submits the
\* non-empty place_id it has
KeepsPlace ==
    /\ last'.op = "update_object"
    /\ last'.status = 302
    /\ Before(last'.id) # None
    /\ Before(last'.id).place_id # <<>>
    /\ last'.place_id = Before(last'.id).place_id

\* C30: no move entry among the new logs, and put_at is kept
SamePlaceKeepsPutAt ==
    [][KeepsPlace =>
           /\ \A i \in 1..Len(NewLogs) : ~IsMoveLog(NewLogs[i])
           /\ After(last'.id).place_id = Before(last'.id).place_id
           /\ After(last'.id).put_at = Before(last'.id).put_at]_vars

\* the Object was put in 40000 at time 1, time has passed, and an update
\* with place 40000 and a new tag wrote a tag entry and kept put_at
SamePlaceKeepsPutAtWitness ==
    /\ last.op = "update_object"
    /\ last.place_id = S("40000")
    /\ last.tags = <<S("b")>>
    /\ get_object(backend, objects, S("10000")) # None
    /\ get_object(backend, objects, S("10000")).place_id = S("40000")
    /\ get_object(backend, objects, S("10000")).put_at = 1
    /\ clock = 3
    /\ Len(logs) = 2
    /\ IsTagLog(list_logs(backend, logs)[2])

(***************************************************************************)
(* create_object served step by step for several callers at once: the id   *)
(* is drawn, get_object is asked for it (and the id drawn again while it   *)
(* is stored), then the Object is saved.  A caller submits its own letter  *)
(* as the name.  The handler awaits between the loop and the save, and     *)
(* the service may run several workers, so the steps of two requests       *)
(* interleave.                                                             *)
(***************************************************************************)
MaxDraws == 3

\* one more draw, counted up to MaxDraws
Drawn(c, id) ==
    [serving EXCEPT ![c] = [pc |-> "drawn", id |-> id, item |-> None,
                            draws |-> IF @.draws < MaxDraws THEN @.draws + 1 ELSE @.draws]]

\* a generator that returns the id it returned before
redrawn_same(id) == {id}

\* new_id = str(random.randint(10000, 99999)) in the body of the loop
redrawn(id) == ObjectIds

\* new_id = str(random.randint(10000, 99999))
DrawId(c) ==
    /\ serving[c].pc = "idle"
    /\ \E new_id \in ObjectIds : serving' = Drawn(c, new_id)
    /\ UNCHANGED <<backend, failing, mirror, inflight, objects, places, tags, logs,
                   audit, clock, last>>

\* while storage.get_object(new_id): the id is stored, draw again
Redraw(c) ==
    /\ serving[c].pc = "drawn"
    /\ get_object(backend, objects, serving[c].id) # None
    /\ \E new_id \in redrawn(serving[c].id) : serving' = Drawn(c, new_id)
    /\ UNCHANGED <<backend, failing, mirror, inflight, objects, places, tags, logs,
                   audit, clock, last>>

\* while storage.get_object(new_id): the id is not stored, the loop ends
LeaveLoop(c) ==
    /\ serving[c].pc = "drawn"
    /\ get_object(backend, objects, serving[c].id) = None
    /\ serving' = [serving EXCEPT ![c].pc = "fresh"]
    /\ UNCHANGED <<backend, failing, mirror, inflight, objects, places, tags, logs,
                   audit, clock, last>>

\* storage.save_object(item) and the redirect (no place: no log)
SaveCreated(c) ==
    /\ serving[c].pc = "fresh"
    /\ objects' = save_object(backend, objects,
                      ObjectItem(serving[c].id, S(c), <<>>, <<>>, <<>>, <<>>, <<>>, NoDate))
    /\ serving' = [serving EXCEPT ![c].pc = "saved"]
    /\ last' = Response("create_object", serving[c].id, <<>>, <<>>, 302)
    /\ UNCHANGED <<backend, failing, mirror, inflight, places, tags, logs, audit, clock>>

NextDraws ==
    \E c \in Callers : DrawId(c) \/ Redraw(c) \/ LeaveLoop(c) \/ SaveCreated(c)

SpecDraws == Init /\ [][NextDraws]_vars

\* a redraw that draws an id that is not stored
RedrawUnused(c) == Redraw(c) /\ get_object(backend, objects, serving'[c].id) = None

\* a request that is being served goes on, and the draws are fair: a loop
\* that could draw an unused id again and again does draw one
FairDraws ==
    \A c \in Callers :
        /\ WF_vars(LeaveLoop(c))
        /\ WF_vars(SaveCreated(c))
        /\ SF_vars(RedrawUnused(c))

SpecDrawsFair == SpecDraws /\ FairDraws

(***************************************************************************)
(* C26: the id-generation loop draws again while the drawn id is stored    *)
(* in the table of its kind and, the draws being fair, it ends whenever    *)
(* some 5-digit id of the kind is unused.                                  *)
(***************************************************************************)
Unused == \E id \in ObjectIds : get_object(backend, objects, id) = None

\* the loop is left only with an id that is not stored, and draws again
\* only when the id is stored
LoopRedrawsWhileStored ==
    \A c \in Callers :
        /\ (serving[c].pc = "drawn" /\ serving'[c].pc = "fresh") =>
               /\ get_object(backend, objects, serving[c].id) = None
               /\ serving'[c].id = serving[c].id
        /\ (serving[c].pc = "drawn" /\ serving'[c].pc = "drawn"
               /\ serving'[c] # serving[c]) =>
               get_object(backend, objects, serving[c].id) # None

\* C26: the loop redraws while the id is stored, and while an id is unused
\* a request in the loop leaves it
RetryLoopTerminates ==
    /\ [][LoopRedrawsWhileStored]_vars
    /\ \A c \in Callers :
           (serving[c].pc = "drawn" /\ Unused) ~> (serving[c].pc # "drawn" \/ ~Unused)

\* a request drew a stored id, drew again and saved under the id it found
RetryLoopTerminatesWitness ==
    /\ serving["a"].pc = "saved"
    /\ serving["a"].draws = 3
    /\ serving["b"].pc = "saved"
    /\ serving["b"].draws = 1
    /\ serving["a"].id # serving["b"].id
    /\ Len(objects) = 2

(***************************************************************************)
(* C27: in every interleaving of two concurrent create requests of one     *)
(* kind (draw an id, check it with get, save), the two requests save       *)
(* their records under different ids, so that neither record overwrites    *)
(* the other.                                                              *)
(***************************************************************************)
\* C27: two requests that have saved hold different ids, and each finds
\* the record it saved
ConcurrentCreatesUseDifferentIds ==
    \A c, d \in Callers :
        (c # d /\ serving[c].pc = "saved" /\ serving[d].pc = "saved") =>
            /\ serving[c].id # serving[d].id
            /\ get_object(backend, objects, serving[c].id).name = S(c)

(***************************************************************************)
(* delete_place served step by step (the handler is a plain function, run  *)
(* on a worker thread): the Place is read and the objects are scanned,     *)
(* then the row is deleted and the audit entry written.  Requests on       *)
(* Objects are served in between.                                          *)
(***************************************************************************)
\* item = storage.get_place(place_id); objects_here = [...]: answered 404
\* or with the form, or found free of objects
ScanPlace(c) ==
    /\ serving[c].pc = "idle"
    /\ \E place_id \in PlaceIds :
           LET item == get_place(backend, places, place_id)
           IN  IF item = None
               THEN /\ last' = Response("delete_place", place_id, <<>>, <<>>, 404)
                    /\ UNCHANGED serving
               ELSE IF objects_here(place_id) # <<>>
               THEN /\ last' = Response("delete_place", place_id, <<>>, <<>>, 200)
                    /\ UNCHANGED serving
               ELSE /\ serving' = [serving EXCEPT ![c] =
                                      [IdleRequest EXCEPT !.pc = "scanned",
                                                          !.id = place_id,
                                                          !.item = item]]
                    /\ UNCHANGED last
    /\ UNCHANGED <<backend, failing, mirror, inflight, objects, places, tags, logs,
                   audit, clock>>

\* storage.delete_place(place_id); storage.add_audit(...); the redirect
RemovePlace(c) ==
    /\ serving[c].pc = "scanned"
    /\ clock < MaxClock
    /\ places' = delete_place(backend, places, serving[c].id)
    /\ audit' = add_audit(backend, audit,
                    AuditLogItem(clock + 1, S("place"), serving[c].id, S("deleted"),
                                 serving[c].item.name))
    /\ clock' = clock + 1
    /\ serving' = [serving EXCEPT ![c] = IdleRequest]
    /\ last' = Response("delete_place", serving[c].id, <<>>, <<>>, 302)
    /\ UNCHANGED <<backend, failing, mirror, inflight, objects, tags, logs>>

NextGuard ==
    \/ CreatePlace({<<>>})
    \/ ScanPlace("a")
    \/ RemovePlace("a")
    \/ CreateObject({S("40000")}, {<<>>})
    \/ UpdateObject({S("10000")}, {<<>>, S("40001")}, {<<>>})
    \/ CreateLog({S("10000")}, {S("40000")}, {<<>>})

SpecGuard == Init /\ [][NextGuard]_vars

(***************************************************************************)
(* C28: in every interleaving of a delete-place request (scan for          *)
(* referencing Objects, then delete_place) with create-object,             *)
(* update-object and create-log requests, the Place row is never removed   *)
(* while a stored Object has that place_id.                                *)
(***************************************************************************)
\* the row of the Place is removed in this step
Removes(place_id) ==
    /\ get_place(backend, places, place_id) # None
    /\ get_place(backend, places', place_id) = None

\* C28: a Place whose row is removed is the place of no stored Object
PlaceRemovedOnlyIfUnreferenced ==
    [][\A place_id \in PlaceIds : Removes(place_id) => ~Referenced(place_id)]_vars

(***************************************************************************)
(* GoogleSheetsBackend.save_object step by step: the call fetches the      *)
(* rows and finds the index of its row, then updates the sheet at that     *)
(* index or appends.  Other calls on the sheet are made in between.        *)
(***************************************************************************)
MaxSheetRows == 3

InitSheets == Init /\ backend = "sheets"

\* the records that are saved while others are deleted
RacingObjects ==
    {ObjectItem(id, name, <<>>, <<>>, <<>>, <<>>, S("40000"), 0) :
        id \in ObjectIds, name \in Names}

\* rows = self.objects_ws.get_all_records() and the scan for item.id
SheetsSaveFetch(c) ==
    \E item \in RacingObjects :
        /\ inflight[c].pc = "idle"
        /\ inflight' = [inflight EXCEPT ![c] =
                            [IdleCall EXCEPT !.pc = "fetched", !.item = item,
                                             !.rows = get_all_records(objects)]]
        /\ UNCHANGED <<backend, failing, serving, mirror, objects, places, tags, logs,
                       audit, clock, last>>

\* self.objects_ws.update(f"A{found_row_index}", [row_values]) or
\* self.objects_ws.append_row(row_values)
SheetsSaveWrite(c) ==
    /\ inflight[c].pc = "fetched"
    /\ objects' = SheetsWriteFetched(inflight[c].rows, objects, ObjectRow(inflight[c].item))
    /\ Len(objects') <= MaxSheetRows
    /\ inflight' = [inflight EXCEPT ![c] = IdleCall]
    /\ last' = Returned("save_object", inflight[c].item.id, None)
    /\ UNCHANGED <<backend, failing, serving, mirror, places, tags, logs, audit, clock>>

\* delete_object made in one piece
SheetsDeleteObject ==
    \E object_id \in ObjectIds :
        /\ objects' = delete_object(backend, objects, object_id)
        /\ last' = Returned("delete_object", object_id, None)
        /\ UNCHANGED <<backend, failing, serving, mirror, inflight, places, tags, logs,
                       audit, clock>>

\* delete_objects_by_place made in one piece
SheetsDeleteObjectsByPlace ==
    LET res == delete_objects_by_place(backend, objects, S("40000"))
    IN  /\ objects' = res.rows
        /\ last' = Returned("delete_objects_by_place", S("40000"), res.count)
        /\ UNCHANGED <<backend, failing, serving, mirror, inflight, places, tags, logs,
                       audit, clock>>

NextSheetRace ==
    \/ SheetsSaveFetch("a")
    \/ SheetsSaveWrite("a")
    \/ SheetsDeleteObject
    \/ SheetsDeleteObjectsByPlace

SpecSheetRace == InitSheets /\ [][NextSheetRace]_vars

(***************************************************************************)
(* C29: on the spreadsheet backend, save_<kind>(item) overwrites the row   *)
(* whose id is item.id or appends a row, and never changes the stored      *)
(* fields of a record with another id, in every interleaving with a        *)
(* delete_<kind> or delete_objects_by_place on the same sheet.             *)
(***************************************************************************)
\* caller c makes the write of its save in this step
SheetWrites(c) == inflight[c].pc = "fetched" /\ inflight'[c].pc = "idle"

\* C29: the write of a save leaves the records of the other ids as they were
SheetSaveTouchesOwnRowOnly ==
    [][\A c \in Callers :
           SheetWrites(c) =>
               \A id \in ObjectIds \ {inflight[c].item.id} :
                   get_object(backend, objects', id) = get_object(backend, objects, id)]_vars

(***************************************************************************)
(* Objects with and without a place and tags, and the logs entered by      *)
(* hand for a stored Object and for an id that has none, stamped now or    *)
(* with a submitted time.                                                  *)
(***************************************************************************)
NextLogs ==
    \/ CreateObject({<<>>, S("40000")}, {<<>>, <<S("a")>>})
    \/ CreateLog(ObjectIds, {S("40001")}, AtForms)

SpecLogs == Init /\ [][NextLogs]_vars

(***************************************************************************)
(* C31: a create_log request that is accepted appends exactly one          *)
(* LogEntry, the submitted one, and no auto-log; if the Object it names is *)
(* stored, the Object then has the entry's place_id and the entry's        *)
(* timestamp as put_at, its other fields and the other Objects being as    *)
(* before; if the Object is not stored, none is created.                   *)
(***************************************************************************)
\* the request served in this step is a create_log that was accepted
LogsByHand == last'.op = "create_log" /\ last'.status = 302

\* the entry is stamped with the time read in this step or with the
\* submitted time
StampedNowOrAsSubmitted(timestamp) ==
    \/ clock' = clock + 1 /\ timestamp = clock + 1
    \/ clock' = clock /\ timestamp = fromisoformat(isoformat(0))

\* C31: one entry more, the submitted one; the named Object is moved to the
\* entry's place at the entry's time and nothing else changes in the objects
CreateLogAppendsOneEntry ==
    [][LogsByHand =>
           /\ Len(logs') = Len(logs) + 1
           /\ LogsKept
           /\ NewLogs[1].object_id = last'.id
           /\ NewLogs[1].place_id = last'.place_id
           /\ NewLogs[1].notes = <<>>
           /\ StampedNowOrAsSubmitted(NewLogs[1].timestamp)
           /\ IF Before(last'.id) # None
              THEN /\ After(last'.id) =
                          [Before(last'.id) EXCEPT !.place_id = NewLogs[1].place_id,
                                                   !.put_at = NewLogs[1].timestamp]
                   /\ Len(objects') = Len(objects)
                   /\ \A id \in ObjectIds \ {last'.id} : After(id) = Before(id)
              ELSE objects' = objects]_vars

\* a log was entered by hand for an id that has no Object, and none was
\* created; then a tagged Object without a place was logged into 40001 at
\* the submitted time 0
CreateLogAppendsOneEntryWitness ==
    /\ last.op = "create_log"
    /\ last.status = 302
    /\ last.id = S("10000")
    /\ get_object(backend, objects, S("10001")) = None
    /\ get_object(backend, objects, S("10000")) # None
    /\ get_object(backend, objects, S("10000")).tags = <<S("a")>>
    /\ get_object(backend, objects, S("10000")).place_id = S("40001")
    /\ get_object(backend, objects, S("10000")).put_at = 0
    /\ Len(logs) = 2
    /\ list_logs(backend, logs)[1].object_id = S("10001")
    /\ list_logs(backend, logs)[2].object_id = S("10000")

====
